---- MODULE Spec2Model ----
(***************************************************************************)
(* A model of generate_graph/graph_util.py: the VerilogGraph node store,  *)
(* its builder methods, the TMR rewrite (triplicateBlck) and the          *)
(* demand-driven evaluator (simulate / __processBlcks).                   *)
(*                                                                         *)
(* Representation.                                                         *)
(*  - A Python str used as a name is a TLA+ string; + is \o.               *)
(*  - A hex or binary string that the code indexes is a sequence of        *)
(*    one-character strings.                                               *)
(*  - A net value is the str() image of the Python value, which is the    *)
(*    only way the code ever reads one (ip_str += str(..)), or "None".    *)
(*  - dGrph (an insertion-ordered dict) is a sequence of [id, node].      *)
(*  - A node (a Python list told apart by its shape) is a record with a   *)
(*    kind tag; NodeLen, Len0 and Len1 give the lengths the code probes.  *)
(*  - An uncaught Python exception ends the call: exc names it and the    *)
(*    object keeps what had been written before the raise.                *)
(*  - out is what the call printed, evals the per-kind computations it    *)
(*    ran, calls the __processBlcks calls it made (a history of the last  *)
(*    call, not a field of the object).  Where the config argument of a   *)
(*    builder call is what matters, calls holds that argument.            *)
(***************************************************************************)
EXTENDS Integers, Sequences, FiniteSets, TLC

VARIABLES dGrph, prime_ip, prime_op, op_fanout, out, exc, evals, calls

vars == <<dGrph, prime_ip, prime_op, op_fanout, out, exc, evals, calls>>

\* The object and the outcome of the call in progress, as one value.
Self == [dGrph |-> dGrph, prime_ip |-> prime_ip, prime_op |-> prime_op,
         op_fanout |-> op_fanout, out |-> out, exc |-> exc, evals |-> evals,
         calls |-> calls]

\* VerilogGraph(): an empty dictionary, empty lists.
NewGraph == [dGrph |-> << >>, prime_ip |-> << >>, prime_op |-> << >>,
             op_fanout |-> << >>, out |-> << >>, exc |-> "", evals |-> << >>,
             calls |-> << >>]

\* A call starts with nothing printed, nothing raised, nothing evaluated.
Enter(vg) == [vg EXCEPT !.out = << >>, !.exc = "", !.evals = << >>, !.calls = << >>]

print(vg, msg) == [vg EXCEPT !.out = Append(@, msg)]

raise(vg, e) == [vg EXCEPT !.exc = e]

-----------------------------------------------------------------------------
(* Sequences *)

Range(s) == {s[i] : i \in 1..Len(s)}

InSeq(x, s) == \E i \in 1..Len(s) : s[i] = x

Reverse(s) == [i \in 1..Len(s) |-> s[Len(s) + 1 - i]]

RECURSIVE Flatten(_)
Flatten(ss) == IF ss = << >> THEN << >> ELSE Head(ss) \o Flatten(Tail(ss))

RECURSIVE Pow2(_)
Pow2(n) == IF n = 0 THEN 1 ELSE 2 * Pow2(n - 1)

-----------------------------------------------------------------------------
(* The dictionary dGrph *)

Ids(d) == {d[i].id : i \in 1..Len(d)}

Has(d, id) == \E i \in 1..Len(d) : d[i].id = id

IndexOf(d, id) == CHOOSE i \in 1..Len(d) : d[i].id = id

Get(d, id) == d[IndexOf(d, id)].node

\* d[id] = node: an existing key keeps its place, a new key goes last.
Put(d, id, node) ==
    IF Has(d, id) THEN [d EXCEPT ![IndexOf(d, id)].node = node]
    ELSE Append(d, [id |-> id, node |-> node])

\* del d[id]
Del(d, id) == SelectSeq(d, LAMBDA e : e.id # id)

-----------------------------------------------------------------------------
(* Node records, and the list lengths by which the code tells them apart *)

\* str tells whether the value is a Python str ('0', '1', 'Z') rather than an
\* int or None: len() of the one succeeds, of the others raises TypeError.
PrimeIoNode(io_type, v) == [kind |-> "prime", io |-> io_type, val |-> v, str |-> FALSE]

CfgNode(ip, op, v, cfg) == [kind |-> "cfg", ip |-> ip, op |-> op, val |-> v, cfg |-> cfg]

AriNode(ip, ops, vals, cfg) ==
    [kind |-> "ari", ip |-> ip, ops |-> ops, vals |-> vals, cfg |-> cfg]

TriNode(ip, ctl, op, v) == [kind |-> "tri", ip |-> ip, ctl |-> ctl, op |-> op, val |-> v]

GateNode(ip, gt, op, v) == [kind |-> "gate", ip |-> ip, gt |-> gt, op |-> op, val |-> v]

\* [inputs, None, config]: a cfg record whose output list was replaced by None.
CfgNoneNode(ip, cfg) == [kind |-> "cfgNone", ip |-> ip, cfg |-> cfg]

\* len(self.dGrph[key])
NodeLen(n) == IF n.kind \in {"prime", "gate"} THEN 2 ELSE 3

\* len(self.dGrph[key][0]): the io_type character, or the input tuple
Len0(n) == IF n.kind = "prime" THEN Len(n.io) ELSE Len(n.ip)

\* len(self.dGrph[key][1]) raises TypeError on an int or None
Len1Raises(n) == (n.kind = "prime" /\ ~n.str) \/ n.kind = "cfgNone"

\* len(self.dGrph[key][1]): [op, v], [[Y, v], [S, v], [FCO, v]], [ctrl], [type, op, v]
Len1(n) ==
    CASE n.kind = "cfg" -> 2
      [] n.kind = "ari" -> 3
      [] n.kind = "tri" -> Len(n.ctl)
      [] n.kind = "gate" -> 3
      [] n.kind = "prime" /\ n.str -> 1
      [] OTHER -> 0

-----------------------------------------------------------------------------
(* __convertToBinaryStr *)

HexChars == <<"0", "1", "2", "3", "4", "5", "6", "7", "8", "9",
              "a", "b", "c", "d", "e", "f", "A", "B", "C", "D", "E", "F">>

\* int(c, 16)
HexValue(c) ==
    LET i == CHOOSE k \in 1..Len(HexChars) : HexChars[k] = c
    IN IF i <= 16 THEN i - 1 ELSE i - 7

\* bin(n)[2:]: the binary digits of n without leading zeros ('0' for 0)
RECURSIVE BinDigits(_)
BinDigits(n) ==
    IF n < 2 THEN <<IF n = 1 THEN "1" ELSE "0">>
    ELSE Append(BinDigits(n \div 2), IF n % 2 = 1 THEN "1" ELSE "0")

Zeros(k) == [i \in 1..k |-> "0"]

RECURSIVE convertToBinaryStr(_)
convertToBinaryStr(hex_str) ==
    IF hex_str = << >> THEN << >>
    ELSE LET bi_str == BinDigits(HexValue(Head(hex_str)))
             padded == IF Len(bi_str) # 4
                       THEN Zeros(4 - (Len(bi_str) % 4)) \o bi_str
                       ELSE bi_str
         IN padded \o convertToBinaryStr(Tail(hex_str))

\* StoredConfig without the [::-1].
StoredConfigUnreversed(config) == convertToBinaryStr(config)

\* self.__convertToBinaryStr(config)[::-1], the form a node stores
StoredConfig(config) == Reverse(convertToBinaryStr(config))

-----------------------------------------------------------------------------
(* Builder methods.  Each takes the object and returns it after the call. *)

addPrimeIo(vg, io_id, io_type) ==
    IF io_type \notin {"i", "o"}
    THEN print(vg, <<"Invalid io_type. No node added.">>)
    ELSE IF Has(vg.dGrph, io_id)
    THEN print(vg, <<"io_id already exists. No node added.">>)
    ELSE LET v == IF io_id = "VCC" THEN "1" ELSE IF io_id = "GND" THEN "0" ELSE "None"
             g == [vg EXCEPT !.dGrph = Put(@, io_id, PrimeIoNode(io_type, v))]
         IN IF io_type = "o" THEN [g EXCEPT !.prime_op = Append(@, io_id)] ELSE g

\* The fan-out registration both branches of addCfgBlck end with.
RegisterFanout(vg, output) ==
    IF Len(output) # 1
    THEN IF output[1] \notin DOMAIN vg.op_fanout
         THEN [vg EXCEPT !.op_fanout = @ @@ (output[1] :> Tail(output))]
         ELSE print(vg, <<"Duplicate driving output">>)
    ELSE vg

\* addCfgBlck without the comparison of the config length with
\* 2**(len(inputs) - 2).
addCfgBlckAnyLength(vg, cfg_id, inputs, output, config) ==
    IF Len(inputs) = 1 /\ Len(config) = 1
    THEN RegisterFanout(
            [vg EXCEPT !.dGrph = Put(@, cfg_id,
                CfgNode(inputs, output[1], "None", StoredConfig(config)))],
            output)
    ELSE IF Len(inputs) <= 2 /\ Len(config) # 1
    THEN print(vg, <<"Configuration string and number of inputs do not match. No node added.">>)
    ELSE IF Has(vg.dGrph, cfg_id)
    THEN print(vg, <<"cfg_id already exists. No node added.">>)
    ELSE RegisterFanout(
            [vg EXCEPT !.dGrph = Put(@, cfg_id,
                CfgNode(inputs, output[1], "None", StoredConfig(config)))],
            output)

\* output is always passed as a non-empty list here.  2**(len(inputs) - 2) is
\* a fraction below two inputs, which no length equals.
addCfgBlck(vg, cfg_id, inputs, output, config) ==
    IF Len(inputs) = 1 /\ Len(config) = 1
    THEN RegisterFanout(
            [vg EXCEPT !.dGrph = Put(@, cfg_id,
                CfgNode(inputs, output[1], "None", StoredConfig(config)))],
            output)
    ELSE IF \/ (Len(inputs) <= 2 /\ Len(config) # 1)
            \/ Len(inputs) < 2
            \/ Len(config) # Pow2(Len(inputs) - 2)
    THEN print(vg, <<"Configuration string and number of inputs do not match. No node added.">>)
    ELSE IF Has(vg.dGrph, cfg_id)
    THEN print(vg, <<"cfg_id already exists. No node added.">>)
    ELSE RegisterFanout(
            [vg EXCEPT !.dGrph = Put(@, cfg_id,
                CfgNode(inputs, output[1], "None", StoredConfig(config)))],
            output)

\* addAriBlck without the test of the number of outputs.
addAriBlckAnyOutputs(vg, ari_id, inputs, outputs, config) ==
    IF Len(inputs) # 5
    THEN print(vg, <<"Invalid number of inputs. No node added.">>)
    ELSE IF Len(config) # 5
    THEN print(vg, <<"Invalid length of configuration string. No node added.">>)
    ELSE IF Has(vg.dGrph, ari_id)
    THEN print(vg, <<"ari_id already exists. No node added.">>)
    ELSE [vg EXCEPT !.dGrph = Put(@, ari_id,
            AriNode(inputs, outputs, [j \in 1..Len(outputs) |-> "None"],
                    StoredConfig(config)))]

addAriBlck(vg, ari_id, inputs, outputs, config) ==
    IF Len(inputs) # 5
    THEN print(vg, <<"Invalid number of inputs. No node added.">>)
    ELSE IF Len(outputs) # 3
    THEN print(vg, <<"Invalid number of outputs. No node added.">>)
    ELSE IF Len(config) # 5
    THEN print(vg, <<"Invalid length of configuration string. No node added.">>)
    ELSE IF Has(vg.dGrph, ari_id)
    THEN print(vg, <<"ari_id already exists. No node added.">>)
    ELSE [vg EXCEPT !.dGrph = Put(@, ari_id,
            AriNode(inputs, outputs, <<"None", "None", "None">>, StoredConfig(config)))]

addTribuf(vg, tribuf_id, ip, ctrl, op) ==
    IF Has(vg.dGrph, tribuf_id)
    THEN print(vg, <<"tribuf_id already exists. No node added.">>)
    ELSE [vg EXCEPT !.dGrph = Put(@, tribuf_id, TriNode(<<ip, ctrl>>, <<ctrl>>, op, "None"))]

addGate(vg, gate_id, gate_type, inputs, output) ==
    IF gate_type \notin {"A", "O"}
    THEN print(vg, <<"Invalid gate_type. No node added.">>)
    ELSE IF Has(vg.dGrph, gate_id)
    THEN print(vg, <<"gate_id already exists. No node added.">>)
    ELSE IF ~(Len(inputs) >= 2)
    THEN print(vg, <<"Cannot add a gate with less than 2 inputs. No node added.">>)
    ELSE [vg EXCEPT !.dGrph = Put(@, gate_id, GateNode(inputs, gate_type, output, "None"))]

-----------------------------------------------------------------------------
(* triplicateBlck *)

Digit(i) == <<"0", "1", "2">>[i + 1]

\* [blck_id+'_tripd780', blck_id+'_tripd781', blck_id+'_tripd782']
NewIds(blck_id) == [i \in 1..3 |-> blck_id \o "_tripd78" \o Digit(i - 1)]

\* The voter of one output: three 2-input AND gates over the replica nets
\* r[1], r[2], r[3] and one OR gate that drives or_out.
Voter(vg, new_ids, k, r, or_out) ==
    LET and_id(i) == new_ids[i] \o "_and" \o Digit(k)
        and_o(i) == and_id(i) \o "_o"
        g1 == addGate(vg, and_id(1), "A", <<r[1], r[2]>>, and_o(1))
        g2 == addGate(g1, and_id(2), "A", <<r[1], r[3]>>, and_o(2))
        g3 == addGate(g2, and_id(3), "A", <<r[2], r[3]>>, and_o(3))
    IN addGate(g3, new_ids[1] \o "_or" \o Digit(k), "O",
               <<and_o(1), and_o(2), and_o(3)>>, or_out)

\* TriplicateAri giving the replicas the inputs of the block in reverse.
TriplicateAriReversed(vg, blck_id) ==
    LET node == Get(vg.dGrph, blck_id)
        new_ids == NewIds(blck_id)
        new_ops == [i \in 1..3 |->
                      [j \in 1..3 |-> node.ops[j] \o "_trip728" \o Digit(i - 1)]]
        replica(i) == AriNode(Reverse(node.ip), new_ops[i], <<"None", "None", "None">>,
                              node.cfg)
        g0 == [vg EXCEPT !.dGrph =
                 Put(Put(Put(@, new_ids[1], replica(1)), new_ids[2], replica(2)),
                     new_ids[3], replica(3))]
        v(g, k) == Voter(g, new_ids, k,
                         <<new_ops[1][k + 1], new_ops[2][k + 1], new_ops[3][k + 1]>>,
                         node.ops[k + 1])
        g3 == v(v(v(g0, 0), 1), 2)
    IN [g3 EXCEPT !.dGrph = Del(@, blck_id)]

TriplicateAri(vg, blck_id) ==
    LET node == Get(vg.dGrph, blck_id)
        new_ids == NewIds(blck_id)
        new_ops == [i \in 1..3 |->
                      [j \in 1..3 |-> node.ops[j] \o "_trip728" \o Digit(i - 1)]]
        replica(i) == AriNode(node.ip, new_ops[i], <<"None", "None", "None">>, node.cfg)
        g0 == [vg EXCEPT !.dGrph =
                 Put(Put(Put(@, new_ids[1], replica(1)), new_ids[2], replica(2)),
                     new_ids[3], replica(3))]
        v(g, k) == Voter(g, new_ids, k,
                         <<new_ops[1][k + 1], new_ops[2][k + 1], new_ops[3][k + 1]>>,
                         node.ops[k + 1])
        g3 == v(v(v(g0, 0), 1), 2)
    IN [g3 EXCEPT !.dGrph = Del(@, blck_id)]

\* The replica nets are named after self.dGrph[blck_id][2][0], which for a
\* cfg record is the first character of the stored config.
TriplicateCfg(vg, blck_id) ==
    LET node == Get(vg.dGrph, blck_id)
        new_ids == NewIds(blck_id)
        new_ops == [i \in 1..3 |-> node.cfg[1] \o "_trip728" \o Digit(i - 1)]
        replica(i) == CfgNode(node.ip, new_ops[i], "None", node.cfg)
        g0 == [vg EXCEPT !.dGrph =
                 Put(Put(Put(@, new_ids[1], replica(1)), new_ids[2], replica(2)),
                     new_ids[3], replica(3))]
        g1 == Voter(g0, new_ids, 0, new_ops, node.op)
    IN [g1 EXCEPT !.dGrph = Del(@, blck_id)]

\* The OR gate is given self.dGrph[blck_id][1][0], which for a tribuf record
\* is the ctrl net.
TriplicateTribuf(vg, blck_id) ==
    LET node == Get(vg.dGrph, blck_id)
        ip == node.ip
        new_ids == NewIds(blck_id)
        new_ops == [i \in 1..3 |-> node.op \o "_trip728" \o Digit(i - 1)]
        replica(i) == TriNode(ip, <<ip[2]>>, new_ops[i], "None")
        g0 == [vg EXCEPT !.dGrph =
                 Put(Put(Put(@, new_ids[1], replica(1)), new_ids[2], replica(2)),
                     new_ids[3], replica(3))]
        g1 == Voter(g0, new_ids, 0, new_ops, node.ctl[1])
    IN [g1 EXCEPT !.dGrph = Del(@, blck_id)]

triplicateBlck(vg, blck_id) ==
    IF ~Has(vg.dGrph, blck_id)
    THEN print(vg, <<"blck_id does not exist. Triplication aborted.", blck_id>>)
    ELSE LET node == Get(vg.dGrph, blck_id)
         IN IF Len1Raises(node) THEN raise(vg, "TypeError")
            ELSE IF Len1(node) = 3
            THEN IF NodeLen(node) < 3 THEN raise(vg, "IndexError")
                 ELSE TriplicateAri(vg, blck_id)
            ELSE IF Len1(node) = 2 THEN TriplicateCfg(vg, blck_id)
            ELSE IF Len1(node) = 1
            THEN IF NodeLen(node) < 3 THEN raise(vg, "IndexError")
                 ELSE TriplicateTribuf(vg, blck_id)
            ELSE print(vg, <<"Unknown error!!!!!!">>)

-----------------------------------------------------------------------------
(* Listing methods *)

\* Each listing keeps the records of d that pass its shape test, in
\* dictionary order.

\* (id, io_type, value) of every prime_io node
listPrimeIos(d) ==
    LET es == SelectSeq(d, LAMBDA e : NodeLen(e.node) = 2 /\ Len0(e.node) = 1)
    IN [i \in 1..Len(es) |-> <<es[i].id, es[i].node.io, es[i].node.val>>]

\* listCfgBlcks, listAriBlcks and listTribufs take len(self.dGrph[key][1]) of
\* every record of length 3 and raise TypeError where that is None.
ListRaises(d) ==
    \E i \in 1..Len(d) : NodeLen(d[i].node) # 2 /\ Len1Raises(d[i].node)

listCfgBlcks(d) == SelectSeq(d, LAMBDA e : NodeLen(e.node) # 2 /\ Len1(e.node) = 2)

listAriBlcks(d) == SelectSeq(d, LAMBDA e : NodeLen(e.node) # 2 /\ Len1(e.node) = 3)

listTribufs(d) == SelectSeq(d, LAMBDA e : NodeLen(e.node) # 2 /\ Len1(e.node) = 1)

listGates(d) == SelectSeq(d, LAMBDA e : NodeLen(e.node) = 2 /\ Len0(e.node) >= 2)

\* listIntermediateOps(True): (net, blck_of_origin, value) of every block
\* output that is not named like a primary input; cfg, ari, tribuf, gate.
listIntermediateOps(d) ==
    LET pios == listPrimeIos(d)
        prime_ips == {pios[i][1] : i \in {j \in 1..Len(pios) : pios[j][2] = "i"}}
        one(e) == IF e.node.op \notin prime_ips
                  THEN << <<e.node.op, e.id, e.node.val>> >> ELSE << >>
        three(e) == Flatten([j \in 1..3 |->
                       IF e.node.ops[j] \notin prime_ips
                       THEN << <<e.node.ops[j], e.id, e.node.vals[j]>> >> ELSE << >>])
        cfgs == listCfgBlcks(d)
        aris == listAriBlcks(d)
        tris == listTribufs(d)
        gates == listGates(d)
    IN Flatten([i \in 1..Len(cfgs) |-> one(cfgs[i])])
       \o Flatten([i \in 1..Len(aris) |-> three(aris[i])])
       \o Flatten([i \in 1..Len(tris) |-> one(tris[i])])
       \o Flatten([i \in 1..Len(gates) |-> one(gates[i])])

-----------------------------------------------------------------------------
(* setIpValue, setRandomInputs *)

\* self.dGrph[key][1] = v on a prime_io record, v an int
SetValue(d, id, v) ==
    [d EXCEPT ![IndexOf(d, id)].node =
        IF @.kind = "prime" THEN [@ EXCEPT !.val = v, !.str = FALSE]
        ELSE [@ EXCEPT !.val = v]]

\* self.dGrph[key][1] = v on a prime_io record, v the value of a block
\* output: a str unless is_str says otherwise
SetOutput(d, id, v, is_str) ==
    [d EXCEPT ![IndexOf(d, id)].node =
        IF @.kind = "prime" THEN [@ EXCEPT !.val = v, !.str = is_str]
        ELSE [@ EXCEPT !.val = v]]

\* self.dGrph[ip_id][0] == 'i': only a prime_io record starts with a string
IsPrimeIn(n) == n.kind = "prime" /\ n.io = "i"

\* setIpValue taking every value other than 0 for 1.
setIpValueNonZero(vg, ip_id, value) ==
    IF ~Has(vg.dGrph, ip_id)
    THEN print(vg, <<"does not exist in graph. Value not set.", ip_id>>)
    ELSE IF ~IsPrimeIn(Get(vg.dGrph, ip_id))
    THEN print(vg, <<"Cannot set value of any other node. Value not set.">>)
    ELSE LET v == IF value # 0 THEN "1" ELSE "0"
         IN [vg EXCEPT !.dGrph = SetValue(@, ip_id, v)]

setIpValue(vg, ip_id, value) ==
    IF ~Has(vg.dGrph, ip_id)
    THEN print(vg, <<"does not exist in graph. Value not set.", ip_id>>)
    ELSE IF ~IsPrimeIn(Get(vg.dGrph, ip_id))
    THEN print(vg, <<"Cannot set value of any other node. Value not set.">>)
    ELSE LET v == IF value >= 1 THEN "1" ELSE "0"
         IN [vg EXCEPT !.dGrph = SetValue(@, ip_id, v)]

\* RandomTargets without the exception of VCC and GND.
RandomTargetsAll(d) ==
    LET pios == listPrimeIos(d)
    IN SelectSeq(pios, LAMBDA io : io[2] = "i")

\* The primary inputs setRandomInputs writes: all but VCC and GND.
RandomTargets(d) ==
    LET pios == listPrimeIos(d)
    IN SelectSeq(pios, LAMBDA io : io[2] = "i" /\ io[1] \notin {"VCC", "GND"})

\* bit_str is what __randomStringGen(len(prime_ips)) returned.
setRandomInputs(vg, bit_str) ==
    LET prime_ips == RandomTargets(vg.dGrph)
        RECURSIVE put(_, _)
        put(d, idx) == IF idx > Len(prime_ips) THEN d
                       ELSE put(SetValue(d, prime_ips[idx][1], bit_str[idx]), idx + 1)
    IN [vg EXCEPT !.dGrph = put(@, 1)]

-----------------------------------------------------------------------------
(* Python's int operators, which __processAriBlck applies to bools *)

\* ~x
PyInvert(x) == -x - 1

\* x & y, x | y, x ^ y on two's-complement integers of any sign
RECURSIVE PyBitOp(_, _, _)
PyBitOp(op, x, y) ==
    LET bit(a, b) == CASE op = "&" -> IF a = 1 /\ b = 1 THEN 1 ELSE 0
                       [] op = "|" -> IF a = 1 \/ b = 1 THEN 1 ELSE 0
                       [] op = "^" -> IF a # b THEN 1 ELSE 0
    IN IF x \in {0, -1} /\ y \in {0, -1}
       THEN -bit(-x, -y)
       ELSE 2 * PyBitOp(op, x \div 2, y \div 2) + bit(x % 2, y % 2)

PyAnd(x, y) == PyBitOp("&", x, y)

PyOr(x, y) == PyBitOp("|", x, y)

PyXor(x, y) == PyBitOp("^", x, y)

\* True is 1 and False is 0 under these operators.
charToBool(char) == IF char = "1" THEN 1 ELSE 0

boolToChar(boolean) == IF boolean # 0 THEN "1" ELSE "0"

\* int(ip_str, 2)
RECURSIVE BinValue(_)
BinValue(ip_str) ==
    IF ip_str = << >> THEN 0
    ELSE 2 * BinValue(SubSeq(ip_str, 1, Len(ip_str) - 1))
         + (IF ip_str[Len(ip_str)] = "1" THEN 1 ELSE 0)

\* str(n) of an int that is 0 or 1
StrOfBit(n) == IF n = 1 THEN "1" ELSE "0"

\* int(c) of a character of bit_str
IntOf(c) == IF c = "1" THEN 1 ELSE 0

-----------------------------------------------------------------------------
(* __simSetup *)

\* self.dGrph[key][1] = None, on whatever record key names
SetItem1None(n) ==
    CASE n.kind = "prime" -> [n EXCEPT !.val = "None", !.str = FALSE]
      [] n.kind \in {"cfg", "ari"} -> CfgNoneNode(n.ip, n.cfg)
      [] n.kind = "cfgNone" -> n

\* The output values of every cfg, ari, tribuf and gate record set to None.
ResetBlcks(d) ==
    [i \in 1..Len(d) |->
        LET n == d[i].node
        IN CASE n.kind \in {"cfg", "tri", "gate"} -> [d[i] EXCEPT !.node.val = "None"]
             [] n.kind = "ari" -> [d[i] EXCEPT !.node.vals = <<"None", "None", "None">>]
             [] OTHER -> d[i]]

simSetup(vg) ==
    LET pios == listPrimeIos(vg.dGrph)
        ins == SelectSeq(pios, LAMBDA io : io[2] = "i")
        g0 == [vg EXCEPT !.prime_ip = [i \in 1..Len(ins) |-> <<ins[i][1], "$", ins[i][3]>>]]
        RECURSIVE resetOps(_, _)
        resetOps(g, k) ==
            IF k > Len(g.prime_op) THEN g
            ELSE IF ~Has(g.dGrph, g.prime_op[k]) THEN raise(g, "KeyError")
            ELSE resetOps([g EXCEPT !.dGrph =
                              Put(@, g.prime_op[k], SetItem1None(Get(@, g.prime_op[k])))],
                          k + 1)
        g1 == resetOps(g0, 1)
    IN IF g1.exc # "" THEN g1
       ELSE IF ListRaises(g1.dGrph) THEN raise(g1, "TypeError")
       ELSE [g1 EXCEPT !.dGrph = ResetBlcks(@)]

-----------------------------------------------------------------------------
(* The per-kind computations.  Each writes the block's outputs, copies them *)
(* to the primary outputs of the same name, and is recorded in evals with  *)
(* the nets it wrote (ops) and the primary-output records it wrote (pos).  *)

\* WritePrimeOp without the write.
WritePrimeOpSkipped(d, ops, net, v) == d

\* if net in self.__prime_op: self.dGrph[net][1] = v
WritePrimeOp(d, ops, net, v) ==
    IF InSeq(net, ops) THEN SetOutput(d, net, v, TRUE) ELSE d

Evaluated(vg, blck_id, ip_str, ops, pos) ==
    [vg EXCEPT !.evals = Append(@, [blck |-> blck_id, ip_str |-> ip_str,
                                    ops |-> ops, pos |-> pos])]

\* The primary-output writes of one output net, as recorded in evals.
PoWrite(prime_ops, net, v) == IF InSeq(net, prime_ops) THEN << <<net, v>> >> ELSE << >>

\* The value of a cfg block is a str ('Z', or a character of the config)
\* except for the int that int(ip_str, 2) gives a one-input block.
CfgIsStr(ip_str) == InSeq("Z", ip_str) \/ Len(ip_str) # 1

CfgOutput(cfg, ip_str) ==
    IF InSeq("Z", ip_str) THEN "Z"
    ELSE IF Len(ip_str) = 1 THEN StrOfBit(BinValue(ip_str))
    ELSE cfg[BinValue(ip_str) + 1]

processCfgBlck(vg, blck_id, ip_str) ==
    LET node == Get(vg.dGrph, blck_id)
        v == CfgOutput(node.cfg, ip_str)
        d1 == [vg.dGrph EXCEPT ![IndexOf(vg.dGrph, blck_id)].node.val = v]
        d2 == IF InSeq(node.op, vg.prime_op)
              THEN SetOutput(d1, node.op, v, CfgIsStr(ip_str)) ELSE d1
        sinks == IF node.op \in DOMAIN vg.op_fanout THEN vg.op_fanout[node.op] ELSE << >>
        RECURSIVE fan(_, _)
        fan(g, k) ==
            IF k > Len(sinks) THEN g
            ELSE IF InSeq(sinks[k], g.prime_op)
            THEN fan([g EXCEPT !.dGrph = SetOutput(@, sinks[k], v, CfgIsStr(ip_str))], k + 1)
            ELSE fan(print(g, <<"Sanity check failed.">>), k + 1)
        written == SelectSeq(sinks, LAMBDA f : InSeq(f, vg.prime_op))
    IN Evaluated(fan([vg EXCEPT !.dGrph = d2], 1), blck_id, ip_str,
                 << <<node.op, v>> >>,
                 PoWrite(vg.prime_op, node.op, v)
                   \o [i \in 1..Len(written) |-> <<written[i], v>>])

\* AriOutputs with the two terms of the carry exchanged:
\* FCO = (P & G) | (~P & FCI).
AriOutputsCarrySwapped(INIT, ip_str) ==
    LET FCI == charToBool(ip_str[5])
        INIT16 == charToBool(INIT[17])
        INIT17 == charToBool(INIT[18])
        F0 == charToBool(INIT[BinValue(<<"0", ip_str[2], ip_str[3], ip_str[4]>>) + 1])
        F1 == charToBool(INIT[BinValue(<<"1", ip_str[2], ip_str[3], ip_str[4]>>) + 1])
        P == PyOr(charToBool(INIT[20]),
                  PyAnd(PyInvert(charToBool(INIT[20])), charToBool(INIT[19])))
        G == PyOr(PyOr(PyAnd(PyAnd(F0, INIT16), INIT17),
                       PyAnd(INIT17, PyInvert(INIT16))),
                  PyAnd(PyAnd(F1, INIT16), INIT17))
        Y == charToBool(INIT[BinValue(SubSeq(ip_str, 1, 4)) + 1])
    IN <<boolToChar(Y), boolToChar(PyXor(Y, FCI)),
         boolToChar(PyOr(PyAnd(P, G), PyAnd(PyInvert(P), FCI)))>>

\* (Y, S, FCO) of an ari block whose inputs hold no 'Z'
AriOutputs(INIT, ip_str) ==
    LET A == ip_str[1]
        B == ip_str[2]
        C == ip_str[3]
        D == ip_str[4]
        FCI == charToBool(ip_str[5])
        INIT16 == charToBool(INIT[17])
        INIT17 == charToBool(INIT[18])
        F0 == charToBool(INIT[BinValue(<<"0", B, C, D>>) + 1])
        F1 == charToBool(INIT[BinValue(<<"1", B, C, D>>) + 1])
        P == PyOr(charToBool(INIT[20]),
                  PyAnd(PyInvert(charToBool(INIT[20])), charToBool(INIT[19])))
        G == PyOr(PyOr(PyAnd(PyAnd(F0, INIT16), INIT17),
                       PyAnd(INIT17, PyInvert(INIT16))),
                  PyAnd(PyAnd(F1, INIT16), INIT17))
        Y == charToBool(INIT[BinValue(<<A, B, C, D>>) + 1])
        S == PyXor(Y, FCI)
        FCO == PyOr(PyAnd(PyInvert(P), G), PyAnd(P, FCI))
    IN <<boolToChar(Y), boolToChar(S), boolToChar(FCO)>>

processAriBlck(vg, blck_id, ip_str) ==
    LET node == Get(vg.dGrph, blck_id)
        vs == IF InSeq("Z", ip_str) THEN <<"Z", "Z", "Z">>
              ELSE AriOutputs(node.cfg, ip_str)
        d1 == [vg.dGrph EXCEPT ![IndexOf(vg.dGrph, blck_id)].node.vals = vs]
        d2 == WritePrimeOp(d1, vg.prime_op, node.ops[1], vs[1])
        d3 == WritePrimeOp(d2, vg.prime_op, node.ops[2], vs[2])
        d4 == WritePrimeOp(d3, vg.prime_op, node.ops[3], vs[3])
    IN Evaluated([vg EXCEPT !.dGrph = d4], blck_id, ip_str,
                 [j \in 1..3 |-> <<node.ops[j], vs[j]>>],
                 Flatten([j \in 1..3 |-> PoWrite(vg.prime_op, node.ops[j], vs[j])]))

\* TribufOutput closing on a ctrl of 0 only: a ctrl of 'Z' lets the data
\* through.
TribufOutputOpenOnZ(ip_str) == IF ip_str[2] # "0" THEN ip_str[1] ELSE "Z"

TribufOutput(ip_str) == IF ip_str[2] = "1" THEN ip_str[1] ELSE "Z"

processTribuf(vg, blck_id, ip_str) ==
    LET node == Get(vg.dGrph, blck_id)
        v == TribufOutput(ip_str)
        d1 == [vg.dGrph EXCEPT ![IndexOf(vg.dGrph, blck_id)].node.val = v]
    IN Evaluated([vg EXCEPT !.dGrph = WritePrimeOp(d1, vg.prime_op, node.op, v)],
                 blck_id, ip_str, << <<node.op, v>> >>, PoWrite(vg.prime_op, node.op, v))

\* GateOutput without the test for 'Z', which then counts as 0.
GateOutputNoZ(gate_type, ip_str) ==
    IF gate_type = "A"
    THEN boolToChar(IF \A i \in 1..Len(ip_str) : charToBool(ip_str[i]) = 1 THEN 1 ELSE 0)
    ELSE boolToChar(IF \E i \in 1..Len(ip_str) : charToBool(ip_str[i]) = 1 THEN 1 ELSE 0)

\* GateOutput with the AND gate computed as the OR gate is.
GateOutputAndAsOr(gate_type, ip_str) ==
    IF InSeq("Z", ip_str) THEN "Z"
    ELSE boolToChar(IF \E i \in 1..Len(ip_str) : charToBool(ip_str[i]) = 1 THEN 1 ELSE 0)

\* The gate types are 'A' and 'O' only (__addGate admits no other).
GateOutput(gate_type, ip_str) ==
    IF InSeq("Z", ip_str) THEN "Z"
    ELSE IF gate_type = "A"
    THEN boolToChar(IF \A i \in 1..Len(ip_str) : charToBool(ip_str[i]) = 1 THEN 1 ELSE 0)
    ELSE boolToChar(IF \E i \in 1..Len(ip_str) : charToBool(ip_str[i]) = 1 THEN 1 ELSE 0)

processGates(vg, blck_id, ip_str) ==
    LET node == Get(vg.dGrph, blck_id)
        v == GateOutput(node.gt, ip_str)
        d1 == [vg.dGrph EXCEPT ![IndexOf(vg.dGrph, blck_id)].node.val = v]
    IN Evaluated([vg EXCEPT !.dGrph = WritePrimeOp(d1, vg.prime_op, node.op, v)],
                 blck_id, ip_str, << <<node.op, v>> >>, PoWrite(vg.prime_op, node.op, v))

-----------------------------------------------------------------------------
(* __processBlcks *)

\* The value read from the driver blck after it was processed for net ip:
\* one character, or for an ari block one per output named ip.
DriverValue(node, ip) ==
    IF NodeLen(node) = 2 THEN <<node.val>>
    ELSE IF Len1(node) = 3
    THEN Flatten([j \in 1..3 |-> IF node.ops[j] = ip THEN <<node.vals[j]>> ELSE << >>])
    ELSE <<node.val>>

\* What __processBlcks does with the outcome r of its recursive call on the
\* driver of input net ip: [vg, add, abort], add being what joins ip_str.
AfterDriver(r, driver, ip) ==
    IF r.vg.exc # "" THEN [vg |-> r.vg, add |-> << >>, abort |-> TRUE]
    ELSE IF r.ret
    THEN [vg |-> r.vg, add |-> DriverValue(Get(r.vg.dGrph, driver), ip), abort |-> FALSE]
    ELSE [vg |-> print(r.vg, <<"Couldn't process blck", driver>>),
          add |-> << >>, abort |-> TRUE]

\* vars_ips + listIntermediateOps(True), as taken when the call starts
AllIos(vg) == vg.prime_ip \o listIntermediateOps(vg.dGrph)

\* The per-kind call that ends __processBlcks, r being the outcome of the
\* loop over the inputs.
Dispatch(r, blck_id) ==
    LET node == Get(r.vg.dGrph, blck_id)
    IN IF r.vg.exc # "" \/ r.abort THEN [vg |-> r.vg, ret |-> FALSE]
       ELSE IF Len(r.ip_str) # Len(node.ip)
       THEN [vg |-> print(r.vg, <<"It's a bug!", blck_id>>), ret |-> FALSE]
       ELSE IF NodeLen(node) = 2
       THEN [vg |-> processGates(r.vg, blck_id, r.ip_str), ret |-> TRUE]
       ELSE IF Len1(node) = 3
       THEN [vg |-> processAriBlck(r.vg, blck_id, r.ip_str), ret |-> TRUE]
       ELSE IF Len1(node) = 2
       THEN [vg |-> processCfgBlck(r.vg, blck_id, r.ip_str), ret |-> TRUE]
       ELSE IF Len1(node) = 1
       THEN [vg |-> processTribuf(r.vg, blck_id, r.ip_str), ret |-> TRUE]
       ELSE [vg |-> print(r.vg, <<"Unknown error!">>), ret |-> FALSE]

\* The value simulate and the properties compare with None: the block's
\* (first) output value.
FirstValue(node) == IF node.kind = "ari" THEN node.vals[1] ELSE node.val

\* A __processBlcks call on blck_id starts, depth calls deep (1 for a call
\* made by simulate); done says that the block held an output value already.
Called(vg, blck_id, depth) ==
    LET done == /\ Has(vg.dGrph, blck_id)
                /\ Get(vg.dGrph, blck_id).kind \in {"cfg", "ari", "tri", "gate"}
                /\ FirstValue(Get(vg.dGrph, blck_id)) # "None"
    IN [vg EXCEPT !.calls = Append(@, [blck |-> blck_id, depth |-> depth, done |-> done])]

\* stack holds the blocks whose __processBlcks call is in progress.  A call
\* on one of them repeats the calls that led to it without end, and Python
\* ends the descent with RecursionError; out then holds one round of the
\* messages the descent repeats.
RECURSIVE processBlcks(_, _, _)
RECURSIVE ResolveInputs(_, _, _, _, _, _)

\* ResolveOne with the nested call made on the reading block instead of the
\* block that drives the net.
ResolveOneSelf(vg, blck_id, all_ios, ip, stack) ==
    LET hits == {i \in 1..Len(all_ios) : all_ios[i][1] = ip}
        io == all_ios[CHOOSE i \in hits : \A j \in hits : i <= j]
    IN IF hits = {}
       THEN [vg |-> print(vg, <<"Could not find input", ip, blck_id>>),
             add |-> << >>, abort |-> TRUE]
       ELSE IF io[3] # "None" THEN [vg |-> vg, add |-> <<io[3]>>, abort |-> FALSE]
       ELSE IF io[2] = "$"
       THEN [vg |-> print(vg, <<"Primary input is not entered", ip>>),
             add |-> << >>, abort |-> TRUE]
       ELSE AfterDriver(processBlcks(print(vg, <<"Input is not entered. Processing blck",
                                                 ip, io[2]>>),
                                     blck_id, stack),
                        io[2], ip)

\* One pass of the for loop over the block's inputs, for input net ip:
\* [vg, add, abort].  The first record of all_ios named ip is the one read.
ResolveOne(vg, blck_id, all_ios, ip, stack) ==
    LET hits == {i \in 1..Len(all_ios) : all_ios[i][1] = ip}
        io == all_ios[CHOOSE i \in hits : \A j \in hits : i <= j]
    IN IF hits = {}
       THEN [vg |-> print(vg, <<"Could not find input", ip, blck_id>>),
             add |-> << >>, abort |-> TRUE]
       ELSE IF io[3] # "None" THEN [vg |-> vg, add |-> <<io[3]>>, abort |-> FALSE]
       ELSE IF io[2] = "$"
       THEN [vg |-> print(vg, <<"Primary input is not entered", ip>>),
             add |-> << >>, abort |-> TRUE]
       ELSE AfterDriver(processBlcks(print(vg, <<"Input is not entered. Processing blck",
                                                 ip, io[2]>>),
                                     io[2], stack),
                        io[2], ip)

\* The loop goes on after the pass with outcome s, or the call returns False.
NextInput(s, blck_id, all_ios, k, ip_str, stack) ==
    IF s.abort THEN [vg |-> s.vg, ip_str |-> ip_str, abort |-> TRUE]
    ELSE ResolveInputs(s.vg, blck_id, all_ios, k + 1, ip_str \o s.add, stack)

\* The for loop over the block's inputs, from input k on: [vg, ip_str, abort].
ResolveInputs(vg, blck_id, all_ios, k, ip_str, stack) ==
    IF k > Len(Get(vg.dGrph, blck_id).ip)
    THEN [vg |-> vg, ip_str |-> ip_str, abort |-> FALSE]
    ELSE NextInput(ResolveOne(vg, blck_id, all_ios, Get(vg.dGrph, blck_id).ip[k], stack),
                   blck_id, all_ios, k, ip_str, stack)

processBlcks(vg0, blck_id, stack) ==
    LET vg == Called(vg0, blck_id, Cardinality(stack) + 1)
    IN IF blck_id \in stack THEN [vg |-> raise(vg, "RecursionError"), ret |-> FALSE]
       ELSE IF ~Has(vg.dGrph, blck_id)
       THEN [vg |-> print(vg, <<"does not exist in the graph. Cannot process.", blck_id>>),
             ret |-> FALSE]
       ELSE IF ListRaises(vg.dGrph) THEN [vg |-> raise(vg, "TypeError"), ret |-> FALSE]
       ELSE Dispatch(ResolveInputs(vg, blck_id, AllIos(vg), 1, << >>, stack \cup {blck_id}),
                     blck_id)

-----------------------------------------------------------------------------
(* simulate *)

\* An optional argument: None, or the value given.
None == << >>

Some(x) == <<x>>

\* The message simulate prints after a top-level __processBlcks call.
Report(r, what, id) ==
    IF r.vg.exc # "" THEN r.vg
    ELSE print(r.vg, <<IF r.ret THEN "Processed" ELSE "Some error in processing",
                       what, id>>)

\* One pass of one of simulate's four loops: the block is processed if its
\* output is still None.
ProcessOne(vg, id, what) ==
    IF FirstValue(Get(vg.dGrph, id)) = "None"
    THEN Report(processBlcks(vg, id, {}), what, id)
    ELSE vg

\* One of simulate's four loops, over the blocks listed when it starts, from
\* the k-th on; an exception ends it.
RECURSIVE ProcessAll(_, _, _, _)
ProcessAll(vg, blcks, k, what) ==
    IF k > Len(blcks) \/ vg.exc # "" THEN vg
    ELSE ProcessAll(ProcessOne(vg, blcks[k].id, what), blcks, k + 1, what)

\* The list each loop of simulate runs over.
ListOf(d, what) ==
    CASE what = "cfg_blck" -> listCfgBlcks(d)
      [] what = "ari_blck" -> listAriBlcks(d)
      [] what = "tribuf" -> listTribufs(d)
      [] what = "gate" -> listGates(d)

ProcessKind(vg, what) ==
    IF vg.exc # "" THEN vg ELSE ProcessAll(vg, ListOf(vg.dGrph, what), 1, what)

\* Evaluate with the loop over the gates before the three others.
EvaluateGatesFirst(vg) ==
    ProcessKind(ProcessKind(ProcessKind(ProcessKind(simSetup(vg),
        "gate"), "cfg_blck"), "ari_blck"), "tribuf")

\* simulate after its argument checks.
Evaluate(vg) ==
    ProcessKind(ProcessKind(ProcessKind(ProcessKind(simSetup(vg),
        "cfg_blck"), "ari_blck"), "tribuf"), "gate")

\* simulate without the comparison of the two lengths: the inputs are set
\* as far as both lists go.
simulateShortest(vg, inputs, bit_str) ==
    IF (inputs = None /\ bit_str # None) \/ (inputs # None /\ bit_str = None)
    THEN print(vg, <<"Please enter both inputs and bit_str. Exiting simulation...">>)
    ELSE IF inputs # None /\ bit_str # None
    THEN LET RECURSIVE set(_, _)
             set(g, i) == IF i > Len(inputs[1]) \/ i > Len(bit_str[1]) THEN g
                          ELSE set(setIpValue(g, inputs[1][i], IntOf(bit_str[1][i])),
                                   i + 1)
         IN Evaluate(set(vg, 1))
    ELSE Evaluate(vg)

simulate(vg, inputs, bit_str) ==
    IF (inputs = None /\ bit_str # None) \/ (inputs # None /\ bit_str = None)
    THEN print(vg, <<"Please enter both inputs and bit_str. Exiting simulation...">>)
    ELSE IF inputs # None /\ bit_str # None
    THEN IF Len(inputs[1]) # Len(bit_str[1])
         THEN print(vg, <<"inputs and bit_str not of same length. Exiting simulation...">>)
         ELSE LET RECURSIVE set(_, _)
                  set(g, i) == IF i > Len(inputs[1]) THEN g
                               ELSE set(setIpValue(g, inputs[1][i], IntOf(bit_str[1][i])),
                                        i + 1)
              IN Evaluate(set(vg, 1))
    ELSE Evaluate(vg)

-----------------------------------------------------------------------------
(* The caller: any sequence of calls of the public methods, with arguments *)
(* from small menus.                                                        *)

\* The builder calls stop at this many records (triplicateBlck adds more).
MaxNodes == 4

Init ==
    /\ dGrph = NewGraph.dGrph
    /\ prime_ip = NewGraph.prime_ip
    /\ prime_op = NewGraph.prime_op
    /\ op_fanout = NewGraph.op_fanout
    /\ out = NewGraph.out
    /\ exc = NewGraph.exc
    /\ evals = NewGraph.evals
    /\ calls = NewGraph.calls

\* The object after a call that returned vg.
Becomes(vg) ==
    /\ dGrph' = vg.dGrph
    /\ prime_ip' = vg.prime_ip
    /\ prime_op' = vg.prime_op
    /\ op_fanout' = vg.op_fanout
    /\ out' = vg.out
    /\ exc' = vg.exc
    /\ evals' = vg.evals
    /\ calls' = vg.calls

\* menu: pairs (io_id, io_type)
AddPrimeIo(menu) ==
    /\ Len(dGrph) < MaxNodes
    /\ \E io \in menu : Becomes(addPrimeIo(Enter(Self), io[1], io[2]))

\* menu: tuples (cfg_id, inputs, output, config)
AddCfgBlck(menu) ==
    /\ Len(dGrph) < MaxNodes
    /\ \E c \in menu : Becomes(addCfgBlck(Enter(Self), c[1], c[2], c[3], c[4]))

\* menu: tuples (tribuf_id, ip, ctrl, op)
AddTribuf(menu) ==
    /\ Len(dGrph) < MaxNodes
    /\ \E t \in menu : Becomes(addTribuf(Enter(Self), t[1], t[2], t[3], t[4]))

SetIpValue(menu) ==
    \E ip_id \in menu, value \in {0, 1} : Becomes(setIpValue(Enter(Self), ip_id, value))

\* __randomStringGen returns any string of '0' and '1' of the length asked.
SetRandomInputs ==
    \E bit_str \in [1..Len(RandomTargets(dGrph)) -> {"0", "1"}] :
        Becomes(setRandomInputs(Enter(Self), bit_str))

\* simulate()
Simulate == Becomes(simulate(Enter(Self), None, None))

\* No call on a graph of more than max records.
TriplicateBlck(menu, max) ==
    /\ Len(dGrph) <= max
    /\ \E blck_id \in menu : Becomes(triplicateBlck(Enter(Self), blck_id))

-----------------------------------------------------------------------------
(* Spec: declarations, a cfg block with a fan-out sink, a tribuf, the      *)
(* inputs, simulate and triplicateBlck.                                     *)

PrimeIoMenu == {<<"a", "i">>, <<"VCC", "i">>, <<"y", "o">>, <<"z", "o">>}

\* A 2-input block whose output has a fan-out sink.
CfgMenu == {<<"u1", <<"a", "a">>, <<"y", "z">>, <<"8">> >>}

TribufMenu == {<<"t1", "a", "VCC", "y">>}

SetIpMenu == {"a", "VCC"}

TriplicateMenu == {"u1", "t1", "y"}

Next ==
    \/ AddPrimeIo(PrimeIoMenu)
    \/ AddCfgBlck(CfgMenu)
    \/ AddTribuf(TribufMenu)
    \/ SetIpValue(SetIpMenu)
    \/ SetRandomInputs
    \/ Simulate
    \/ TriplicateBlck(TriplicateMenu, MaxNodes)

Spec == Init /\ [][Next]_vars

-----------------------------------------------------------------------------
(* SpecErr: the calls that go wrong.  A 1-input block, a block under the   *)
(* name of a primary output that reads a net nobody provides, and a block  *)
(* fed by its own output.                                                   *)

ErrPrimeIoMenu == {<<"a", "i">>, <<"y", "o">>}

ErrCfgMenu == {<<"u2", <<"a">>, <<"t">>, <<"1">> >>,
               <<"y", <<"n">>, <<"q">>, <<"1">> >>,
               <<"u3", <<"w">>, <<"w">>, <<"1">> >>}

ErrSetIpMenu == {"a", "y"}

NextErr ==
    \/ AddPrimeIo(ErrPrimeIoMenu)
    \/ AddCfgBlck(ErrCfgMenu)
    \/ SetIpValue(ErrSetIpMenu)
    \/ Simulate

SpecErr == Init /\ [][NextErr]_vars

-----------------------------------------------------------------------------
(* A script of builder calls, as Parser.Parse and the module's own test    *)
(* make them: the declarations, then the blocks.                            *)

\* addPrimeIo for every (io_id, io_type) of ios, in order
RECURSIVE Declare(_, _)
Declare(vg, ios) ==
    IF ios = << >> THEN vg
    ELSE Declare(addPrimeIo(vg, Head(ios)[1], Head(ios)[2]), Tail(ios))

\* The primary inputs of a graph, in dictionary order, and the bit strings
\* of their number.
VectorInputs(d) ==
    LET ins == RandomTargets(d) IN [i \in 1..Len(ins) |-> ins[i][1]]

Vectors(d) == [1..Len(VectorInputs(d)) -> {"0", "1"}]

\* simulate(inputs, bit_str) naming every primary input, as main.py calls it
SimulateVector(vg, bits) ==
    simulate(Enter(vg), Some(VectorInputs(vg.dGrph)), Some(bits))

SimulateInputs == \E bits \in Vectors(dGrph) : Becomes(SimulateVector(Self, bits))

-----------------------------------------------------------------------------
(* SpecAri: one ari block between primary inputs and primary outputs, its  *)
(* config any of AriConfigs, simulated on every input vector.               *)

\* The first digit, which holds INIT[16..19], takes every value.
AriConfigs ==
    {<<h>> \o t : h \in {HexChars[k] : k \in 1..16},
                  t \in {<<"5", "D", "2", "1">>, <<"C", "9", "B", "5">>,
                         <<"0", "f", "3", "a">>}}

AriNetlist(vg, config) ==
    addAriBlck(Declare(vg, <<<<"A", "i">>, <<"B", "i">>, <<"C", "i">>, <<"D", "i">>,
                             <<"FCI", "i">>, <<"Y", "o">>, <<"S", "o">>, <<"FCO", "o">>>>),
               "ari1", <<"A", "B", "C", "D", "FCI">>, <<"Y", "S", "FCO">>, config)

BuildAri ==
    /\ dGrph = << >>
    /\ \E config \in AriConfigs : Becomes(AriNetlist(Enter(Self), config))

NextAri == BuildAri \/ SimulateInputs

SpecAri == Init /\ [][NextAri]_vars

-----------------------------------------------------------------------------
(* SpecZ: a tribuf whose output net n is 'Z' unless its ctrl is 1, read by *)
(* a cfg block with a fan-out sink, an ari block and a second tribuf; the  *)
(* gates come from triplicateBlck.                                          *)

\* triplicateBlck is called on graphs of up to this many records.
MaxTmrNodes == 11

\* The inputs of the cfg block and of the ari block in the k-th netlist: n
\* is the first, the second or the only input of the one, the k-th of the
\* other.
ZCfgInputs(k) == <<<<"n", "e">>, <<"e", "n">>, <<"n">>>>[(k % 3) + 1]

ZAriInputs(k) == [i \in 1..5 |-> IF i = k THEN "n" ELSE "e"]

ZNetlist(vg, cfg_ip, ari_ip) ==
    LET g0 == Declare(vg, <<<<"d", "i">>, <<"c", "i">>, <<"e", "i">>, <<"y1", "o">>,
                            <<"y1s", "o">>, <<"y2", "o">>, <<"y3", "o">>>>)
        g1 == addTribuf(g0, "tri1", "d", "c", "n")
        g2 == addCfgBlck(g1, "cfg1", cfg_ip, <<"y1", "y1s">>, <<"8">>)
        g3 == addAriBlck(g2, "ari1", ari_ip, <<"ay", "y2", "af">>, <<"A", "5", "D", "2", "1">>)
    IN addTribuf(g3, "tri2", "n", "e", "y3")

BuildZ ==
    /\ dGrph = << >>
    /\ \E k \in 1..5 : Becomes(ZNetlist(Enter(Self), ZCfgInputs(k), ZAriInputs(k)))

ZSetIpMenu == {"d", "c", "e"}

ZTriplicateMenu == {"cfg1", "ari1", "tri2"}

NextZ ==
    \/ BuildZ
    \/ SetIpValue(ZSetIpMenu)
    \/ Simulate
    \/ TriplicateBlck(ZTriplicateMenu, MaxTmrNodes)

SpecZ == Init /\ [][NextZ]_vars

-----------------------------------------------------------------------------
(* SpecArgs: the public methods called with arguments of every shape: cfg  *)
(* and ari blocks of any number of inputs, outputs and config digits,      *)
(* setIpValue on ids of every kind, simulate with any combination of its   *)
(* optional arguments.                                                      *)

\* addCfgBlck is called with 0..MaxCfgInputs inputs and 0..MaxCfgDigits
\* config digits, addAriBlck with up to MaxAriInputs inputs, MaxAriOutputs
\* outputs and MaxAriDigits config digits, and down to two less of each.
MaxCfgInputs == 4

MaxCfgDigits == 5

MaxAriInputs == 6

MaxAriOutputs == 4

MaxAriDigits == 6

\* n times the net a, and a config of l digits
ArgNets(n) == [i \in 1..n |-> "a"]

ArgDigits(l) == [i \in 1..l |-> "8"]

\* The first n of the output nets of the ari block
ArgOuts(n) == SubSeq(<<"p", "y", "q", "s", "t", "w">>, 1, n)

BuildArgs ==
    /\ dGrph = << >>
    /\ Becomes(Declare(Enter(Self), <<<<"a", "i">>, <<"y", "o">>>>))

\* One output net, or an output net and a sink
ArgOutputs == {<<"t">>, <<"t", "y">>}

\* addCfgBlck('u1', n inputs, output, l digits)
AddCfgShape ==
    /\ dGrph # << >>
    /\ \E n \in 0..MaxCfgInputs, l \in 0..MaxCfgDigits, output \in ArgOutputs :
          Becomes(addCfgBlck(Enter(Self), "u1", ArgNets(n), output, ArgDigits(l)))

\* addAriBlck('r1', ni inputs, no outputs, l digits)
AddAriShape ==
    /\ dGrph # << >>
    /\ \E ni \in (MaxAriInputs - 2)..MaxAriInputs,
          no \in (MaxAriOutputs - 2)..MaxAriOutputs,
          l \in (MaxAriDigits - 2)..MaxAriDigits :
          Becomes(addAriBlck(Enter(Self), "r1", ArgNets(ni), ArgOuts(no), ArgDigits(l)))

\* The ids setIpValue is called on: a primary input, a primary output, a cfg
\* block, an ari block, no record.
ArgIds == {"a", "y", "u1", "r1", "nope"}

ArgValues == {-1, 0, 1, 2}

SetIpValueOf(menu, values) ==
    \E ip_id \in menu, value \in values : Becomes(setIpValue(Enter(Self), ip_id, value))

\* The optional arguments of simulate: absent, or lists of 0 to 2 elements.
ArgInputs == {None, Some(<< >>), Some(<<"a">>), Some(<<"a", "y">>)}

ArgBits == {None, Some(<< >>), Some(<<"1">>), Some(<<"0", "1">>)}

SimulateArgs ==
    \E inputs \in ArgInputs, bit_str \in ArgBits :
        Becomes(simulate(Enter(Self), inputs, bit_str))

NextArgs ==
    \/ BuildArgs
    \/ AddCfgShape
    \/ AddAriShape
    \/ SetIpValueOf(ArgIds, ArgValues)
    \/ SimulateArgs

SpecArgs == Init /\ [][NextArgs]_vars

-----------------------------------------------------------------------------
(* SpecTri: tribufs whose ctrl is a primary input (tri1, t3), the output   *)
(* of a tribuf (tri2) and whose data is the output of a tribuf (tri4); t3  *)
(* is triplicated on a graph that declares two of its replica nets as      *)
(* primary inputs, so that the voter gates read values that differ.        *)

\* triplicateBlck is called on graphs of up to this many records.
MaxTriNodes == 16

TriNetlist(vg) ==
    LET g0 == Declare(vg, <<<<"d", "i">>, <<"c", "i">>, <<"y_trip7280", "i">>,
                            <<"y_trip7281", "i">>, <<"y", "o">>, <<"z", "o">>>>)
        g1 == addTribuf(g0, "tri1", "d", "c", "n")
        g2 == addTribuf(g1, "tri2", "d", "n", "z")
        g3 == addTribuf(g2, "tri4", "n", "d", "w")
    IN addTribuf(g3, "t3", "d", "c", "y")

BuildTri ==
    /\ dGrph = << >>
    /\ Becomes(TriNetlist(Enter(Self)))

TriSetIpMenu == {"d", "c", "y_trip7280", "y_trip7281"}

\* The ids triplicateBlck is called on: a tribuf, a primary output, a
\* primary input, a voter gate, no record.
TriTriplicateMenu == {"t3", "y", "d", "t3_tripd780_or0", "nope"}

NextTri ==
    \/ BuildTri
    \/ SetIpValue(TriSetIpMenu)
    \/ Simulate
    \/ TriplicateBlck(TriTriplicateMenu, MaxTriNodes)

SpecTri == Init /\ [][NextTri]_vars

-----------------------------------------------------------------------------
(* SpecSim: a chained netlist of cfg blocks, an ari block and tribufs, its *)
(* blocks added in one of several orders, so that simulate finds drivers   *)
(* that are listed after their consumers.  c2 reads a tribuf, c3 reads two *)
(* outputs of the ari block, c4 has one input; y, s and z are primary      *)
(* outputs, q is a primary output that nothing drives, VCC is declared and *)
(* never set by the caller, b is set by setRandomInputs only.              *)

\* triplicateBlck is called on graphs of up to this many records.
MaxSimNodes == 20

SimBlocks ==
    << <<"cfg", "c1", <<"a", "b">>, <<"t">>, <<"8">> >>,
       <<"cfg", "c2", <<"t", "n">>, <<"y">>, <<"6">> >>,
       <<"ari", "r1", <<"a", "t", "n", "b", "a">>, <<"ry", "s", "rf">>,
                      <<"A", "5", "D", "2", "1">> >>,
       <<"cfg", "c3", <<"ry", "rf">>, <<"w">>, <<"E">> >>,
       <<"tri", "t1", <<"a", "b">>, <<"n">> >>,
       <<"tri", "t2", <<"w", "t">>, <<"z">> >>,
       <<"cfg", "c4", <<"t">>, <<"u">>, <<"1">> >> >>

\* The orders in which the blocks are added: drivers first, consumers
\* first, and mixed.
SimOrders == {<<1, 2, 3, 4, 5, 6, 7>>, <<7, 6, 5, 4, 3, 2, 1>>, <<4, 2, 7, 1, 6, 3, 5>>}

AddBlock(vg, b) ==
    CASE b[1] = "cfg" -> addCfgBlck(vg, b[2], b[3], b[4], b[5])
      [] b[1] = "ari" -> addAriBlck(vg, b[2], b[3], b[4], b[5])
      [] b[1] = "tri" -> addTribuf(vg, b[2], b[3][1], b[3][2], b[4][1])

RECURSIVE AddBlocks(_, _, _)
AddBlocks(vg, order, k) ==
    IF k > Len(order) THEN vg
    ELSE AddBlocks(AddBlock(vg, SimBlocks[order[k]]), order, k + 1)

SimNetlist(vg, order) ==
    AddBlocks(Declare(vg, <<<<"a", "i">>, <<"b", "i">>, <<"VCC", "i">>, <<"y", "o">>,
                            <<"s", "o">>, <<"z", "o">>, <<"q", "o">>>>),
              order, 1)

BuildSim ==
    /\ dGrph = << >>
    /\ \E order \in SimOrders : Becomes(SimNetlist(Enter(Self), order))

SimSetIpMenu == {"a"}

SimTriplicateMenu == {"c1", "c2", "r1", "t2"}

NextSim ==
    \/ BuildSim
    \/ SetIpValue(SimSetIpMenu)
    \/ SetRandomInputs
    \/ Simulate
    \/ TriplicateBlck(SimTriplicateMenu, MaxSimNodes)

SpecSim == Init /\ [][NextSim]_vars

-----------------------------------------------------------------------------
(* The hex conversion: one addCfgBlck or addAriBlck call on a new graph,   *)
(* with a config string of every digit, and the string kept in calls.      *)

MaxHexLen == 2

\* The strings of 1 to MaxHexLen hex digits, of either case.
HexStrings == UNION {[1..k -> Range(HexChars)] : k \in 1..MaxHexLen}

\* Some strings of the four digits a 4-input cfg block takes, and of the
\* five an ari block takes.
CfgHexStrings == [1..4 -> {"0", "b", "F"}]

AriHexStrings == [1..5 -> {"7", "c", "E"}]

\* As many inputs as addCfgBlck wants for the config: 2, 3 or 4.
CfgInputsFor(config) ==
    SubSeq(<<"a", "b", "c", "d">>, 1,
           IF Len(config) = 1 THEN 2 ELSE IF Len(config) = 2 THEN 3 ELSE 4)

\* The call on block id had the argument config.
WithConfig(vg, id, config) ==
    [vg EXCEPT !.calls = Append(@, [blck |-> id, config |-> config])]

AddCfgHex ==
    /\ dGrph = << >> /\ calls = << >>
    /\ \E h \in HexStrings \cup CfgHexStrings :
          Becomes(WithConfig(addCfgBlck(Enter(Self), "h", CfgInputsFor(h), <<"o">>, h),
                             "h", h))

AddAriHex ==
    /\ dGrph = << >> /\ calls = << >>
    /\ \E h \in AriHexStrings :
          Becomes(WithConfig(addAriBlck(Enter(Self), "h", <<"a", "b", "c", "d", "e">>,
                                        <<"y", "s", "f">>, h),
                             "h", h))

NextHex == AddCfgHex \/ AddAriHex

SpecHex == Init /\ [][NextHex]_vars

-----------------------------------------------------------------------------
(* What the properties below read off a graph *)

\* The ids of the block records of d, of the kinds given.
BlocksOf(d, kinds) == {id \in Ids(d) : Get(d, id).kind \in kinds}

Blocks(d) == BlocksOf(d, {"cfg", "ari", "tri", "gate"})

\* The blocks triplicateBlck is meant for.
Triplicatable(d) == BlocksOf(d, {"cfg", "ari", "tri"})

\* The nets a record drives and the nets it reads.
OutNets(n) ==
    IF n.kind = "ari" THEN Range(n.ops)
    ELSE IF n.kind \in {"cfg", "tri", "gate"} THEN {n.op}
    ELSE {}

InNets(n) == IF n.kind = "prime" THEN {} ELSE Range(n.ip)

\* The values a record holds: one per output net, or the value of a prime_io.
OutValues(n) ==
    IF n.kind = "ari" THEN n.vals
    ELSE IF n.kind = "cfgNone" THEN << >>
    ELSE <<n.val>>

\* The ids of the declared primary inputs and outputs.
PrimeIns(d) == {id \in BlocksOf(d, {"prime"}) : Get(d, id).io = "i"}

PrimeOuts(d) == {id \in BlocksOf(d, {"prime"}) : Get(d, id).io = "o"}

\* Block x drives a net that block y reads.
Feeds(d, x, y) == OutNets(Get(d, x)) \cap InNets(Get(d, y)) # {}

\* S and every block from which a block of S can be reached.
RECURSIVE FanIn(_, _)
FanIn(d, S) ==
    LET T == S \cup {x \in Blocks(d) : \E y \in S : Feeds(d, x, y)}
    IN IF T = S THEN S ELSE FanIn(d, T)

Acyclic(d) ==
    \A b \in Blocks(d) : b \notin FanIn(d, {x \in Blocks(d) : Feeds(d, x, b)})

\* Every net has at most one driver, counting a primary input as the driver
\* of the net of its name.
SingleDrivers(d) ==
    /\ \A x, y \in Blocks(d) : x # y => OutNets(Get(d, x)) \cap OutNets(Get(d, y)) = {}
    /\ \A x \in Blocks(d) : OutNets(Get(d, x)) \cap PrimeIns(d) = {}
    /\ \A x \in BlocksOf(d, {"ari"}) : Cardinality(Range(Get(d, x).ops)) = 3

\* A graph as the data model describes it: the declared primary outputs are
\* prime_io records, no record is damaged, no net has two drivers, no cycle.
WellFormed(vg) ==
    /\ Range(vg.prime_op) = PrimeOuts(vg.dGrph)
    /\ BlocksOf(vg.dGrph, {"cfgNone"}) = {}
    /\ SingleDrivers(vg.dGrph)
    /\ Acyclic(vg.dGrph)

\* The value on every declared primary output.
PrimeOutValues(vg) == [o \in PrimeOuts(vg.dGrph) |-> Get(vg.dGrph, o).val]

-----------------------------------------------------------------------------
(* Properties of Spec *)

\* C1: for every triplicatable block b of a well-formed acyclic graph and
\* every 0/1 vector on the primary inputs, simulate leaves the same values on
\* the primary outputs of the graph and of the graph after triplicateBlck(b).
TmrEquivalence ==
    WellFormed(Self) =>
        \A b \in Triplicatable(dGrph), bits \in Vectors(dGrph) :
            PrimeOutValues(SimulateVector(Self, bits))
              = PrimeOutValues(SimulateVector(triplicateBlck(Enter(Self), b), bits))

\* The gates of d that are not in d0, of gate type gt, whose output is net.
NewGates(d0, d, gt, net) ==
    {g \in BlocksOf(d, {"gate"}) \ Ids(d0) :
        Get(d, g).gt = gt /\ Get(d, g).op = net}

\* C2: a triplicateBlck(b) call on a cfg, ari or tribuf block removes the id
\* b, and leaves every net b drove as the output of exactly one new OR gate.
TriplicateRewires ==
    [][\A b \in TriplicateMenu :
          (/\ b \in Triplicatable(dGrph)
           /\ Becomes(triplicateBlck(Enter(Self), b)))
          => /\ ~Has(dGrph', b)
             /\ \A net \in OutNets(Get(dGrph, b)) :
                    Cardinality(NewGates(dGrph, dGrph', "O", net)) = 1]_vars

\* The value on a net: that of the block output of its name, or else of the
\* prime_io record of its name.
NetValue(d, net) ==
    LET drivers == {x \in Blocks(d) : net \in OutNets(Get(d, x))}
        x == CHOOSE x \in drivers : TRUE
        n == Get(d, x)
    IN IF drivers # {}
       THEN IF n.kind = "ari"
            THEN n.vals[CHOOSE j \in 1..3 : n.ops[j] = net]
            ELSE n.val
       ELSE IF net \in BlocksOf(d, {"prime"}) THEN Get(d, net).val
       ELSE "None"

\* Every registered sink that is a declared primary output holds the value
\* of its driver net.
FanoutEqual(vg) ==
    \A driver \in DOMAIN vg.op_fanout :
        \A k \in 1..Len(vg.op_fanout[driver]) :
            vg.op_fanout[driver][k] \in PrimeOuts(vg.dGrph)
            => NetValue(vg.dGrph, vg.op_fanout[driver][k]) = NetValue(vg.dGrph, driver)

\* C6: when simulate returns on a well-formed graph, every sink of the
\* fan-out registry holds the value of its driver net.
FanoutEquivalence ==
    [][(Simulate /\ exc' = "" /\ WellFormed(Self)) => FanoutEqual(Self)']_vars

\* C7: a declared primary input VCC holds 1 and GND holds 0, in every state.
ConstantsPinned ==
    /\ "VCC" \in PrimeIns(dGrph) => Get(dGrph, "VCC").val = "1"
    /\ "GND" \in PrimeIns(dGrph) => Get(dGrph, "GND").val = "0"

\* The output nets of a block record, in order.
OutSeq(n) == IF n.kind = "ari" THEN n.ops ELSE <<n.op>>

\* C13: a triplicateBlck(b) call on a cfg, ari or tribuf block leaves three
\* replicas b_tripd780, b_tripd781, b_tripd782 of b's kind, the i-th with the
\* output nets of b followed by _trip7280, _trip7281, _trip7282.
ReplicaNames ==
    [][\A b \in TriplicateMenu :
          (/\ b \in Triplicatable(dGrph)
           /\ Becomes(triplicateBlck(Enter(Self), b)))
          => \A i \in 0..2 :
                LET id == b \o "_tripd78" \o Digit(i)
                    o == OutSeq(Get(dGrph, b))
                IN /\ Has(dGrph', id)
                   /\ Get(dGrph', id).kind = Get(dGrph, b).kind
                   /\ OutSeq(Get(dGrph', id))
                        = [j \in 1..Len(o) |-> o[j] \o "_trip728" \o Digit(i)]]_vars

\* C14: a triplicateBlck(b) call on a cfg, ari or tribuf block of a graph
\* where every net has one driver at most leaves such a graph, and no gate
\* it adds drives a primary input or a net that b reads.
SingleDriverKept ==
    [][\A b \in TriplicateMenu :
          (/\ b \in Triplicatable(dGrph)
           /\ SingleDrivers(dGrph)
           /\ Becomes(triplicateBlck(Enter(Self), b)))
          => /\ SingleDrivers(dGrph')
             /\ \A g \in BlocksOf(dGrph', {"gate"}) \ Ids(dGrph) :
                    Get(dGrph', g).op \notin PrimeIns(dGrph) \cup InNets(Get(dGrph, b))]_vars

-----------------------------------------------------------------------------
(* Properties of SpecErr *)

IsBits(ip_str) == \A i \in 1..Len(ip_str) : ip_str[i] \in {"0", "1"}

\* C3: a cfg block evaluated on inputs that are all 0 or 1 holds
\* config_rev[b], b being the inputs read as a binary number, first input
\* most significant; for every number of inputs, 1 included.
CfgLookup ==
    \A i \in 1..Len(evals) :
        LET n == Get(dGrph, evals[i].blck)
        IN (n.kind = "cfg" /\ IsBits(evals[i].ip_str))
           => n.val = n.cfg[BinValue(evals[i].ip_str) + 1]

\* The values on all records: what a simulate call leaves behind.
Values(vg) == [id \in Ids(vg.dGrph) |-> OutValues(Get(vg.dGrph, id))]

\* vg with the value of every block output and primary output forgotten.
Cleared(vg) ==
    [vg EXCEPT !.dGrph =
        [i \in 1..Len(@) |->
            IF @[i].node.kind = "prime" /\ @[i].node.io = "o"
            THEN [@[i] EXCEPT !.node.val = "None", !.node.str = FALSE]
            ELSE ResetBlcks(@)[i]]]

\* C8: the values simulate leaves are those it leaves on the same graph
\* with the same primary-input values and no earlier value on any block or
\* primary output: nothing written by an earlier call survives.
NoStaleValues ==
    [][Simulate =>
         Values(Self)' = Values(simulate(Enter(Cleared(Self)), None, None))]_vars

\* The id is kept with its record, and no id comes or goes.
Retained(id) == Get(dGrph', id) = Get(dGrph, id) /\ Ids(dGrph') = Ids(dGrph)

\* C9: a builder call whose id is already in dGrph, under whatever kind,
\* leaves the record of that id as it was and the set of ids as it was.
DuplicateRejected ==
    [][/\ \A io \in ErrPrimeIoMenu :
            (Has(dGrph, io[1]) /\ Becomes(addPrimeIo(Enter(Self), io[1], io[2])))
            => Retained(io[1])
       /\ \A c \in ErrCfgMenu :
            (Has(dGrph, c[1]) /\ Becomes(addCfgBlck(Enter(Self), c[1], c[2], c[3], c[4])))
            => Retained(c[1])]_vars

\* The nets that hold a value before any block is evaluated.
SetInputs(d) == {id \in PrimeIns(d) : Get(d, id).val # "None"}

\* The nets no evaluation can provide: primary inputs not entered, and nets
\* that are neither a primary input nor the output of a block.
MissingNets(d) ==
    {net \in UNION {InNets(Get(d, b)) : b \in Blocks(d)} :
        \/ net \in PrimeIns(d) \ SetInputs(d)
        \/ net \notin PrimeIns(d) /\ \A x \in Blocks(d) : net \notin OutNets(Get(d, x))}

\* The blocks whose evaluation has to reach a missing net.
Failing(d) ==
    {b \in Blocks(d) : \E x \in FanIn(d, {b}) : InNets(Get(d, x)) \cap MissingNets(d) # {}}

\* S and the blocks all of whose inputs are entered primary inputs or
\* outputs of blocks of S, and so on: the blocks that can be evaluated.
RECURSIVE Evaluable(_, _)
Evaluable(d, S) ==
    LET have == SetInputs(d) \cup UNION {OutNets(Get(d, x)) : x \in S}
        T == S \cup {b \in Blocks(d) : InNets(Get(d, b)) \subseteq have}
    IN IF T = S THEN S ELSE Evaluable(d, T)

\* simulate reported an input that is not entered or not found.
MissingReported(msgs) ==
    \E i \in 1..Len(msgs) :
        msgs[i][1] \in {"Primary input is not entered", "Could not find input"}

Unset(n) == \A j \in 1..Len(OutValues(n)) : OutValues(n)[j] = "None"

Defined(n) == \A j \in 1..Len(OutValues(n)) : OutValues(n)[j] # "None"

\* C10: in a simulate call that reports a missing input, every block whose
\* evaluation has to reach a missing net is left unset and every block that
\* can be evaluated from the entered inputs is left with defined values (on a
\* graph with its declared primary outputs intact and one driver per net).
MissingInputIsLocal ==
    [][(/\ Simulate
        /\ MissingReported(out')
        /\ Range(prime_op) = PrimeOuts(dGrph)
        /\ BlocksOf(dGrph, {"cfgNone"}) = {}
        /\ SingleDrivers(dGrph))
       => /\ \A b \in Failing(dGrph) : Unset(Get(dGrph', b))
          /\ \A b \in Evaluable(dGrph, {}) : Defined(Get(dGrph', b))]_vars

\* The blocks that lie on a cycle of the feeds relation.
OnCycle(d) == {b \in Blocks(d) : b \in FanIn(d, {x \in Blocks(d) : Feeds(d, x, b)})}

\* C11: a simulate call on a graph with a combinational cycle returns
\* without an exception, leaves every block on a cycle unset and every block
\* that can be evaluated from the entered inputs with defined values (on a
\* graph with its declared primary outputs intact and one driver per net).
CycleIsLocal ==
    [][(/\ Simulate
        /\ OnCycle(dGrph) # {}
        /\ Range(prime_op) = PrimeOuts(dGrph)
        /\ BlocksOf(dGrph, {"cfgNone"}) = {}
        /\ SingleDrivers(dGrph))
       => /\ exc' = ""
          /\ \A b \in OnCycle(dGrph) : Unset(Get(dGrph', b))
          /\ \A b \in Evaluable(dGrph, {}) : Defined(Get(dGrph', b))]_vars

-----------------------------------------------------------------------------
(* Properties of SpecArgs *)

\* The config lengths the rule admits for n inputs: one digit for 1 or 2
\* inputs, 2^(n-2) digits from 3 inputs on.
CfgShapeOk(n, l) == (n \in {1, 2} /\ l = 1) \/ (n >= 3 /\ l = Pow2(n - 2))

\* The graph and its registers are the same in vg as in the current state.
Untouched(vg) ==
    /\ vg.dGrph = dGrph
    /\ vg.prime_ip = prime_ip
    /\ vg.prime_op = prime_op
    /\ vg.op_fanout = op_fanout

\* C12: in every state, an addCfgBlck call whose number of inputs and config
\* length do not fit the rule (no input at all included) adds no record and
\* no fan-out registry entry.
CfgShapeChecked ==
    \A n \in 0..MaxCfgInputs, l \in 0..MaxCfgDigits, output \in ArgOutputs :
        ~CfgShapeOk(n, l)
        => Untouched(addCfgBlck(Enter(Self), "u1", ArgNets(n), output, ArgDigits(l)))

\* An addCfgBlck call was turned down for its shape, on a graph without u1.
CfgShapeRejected ==
    /\ dGrph # << >>
    /\ ~Has(dGrph, "u1")
    /\ op_fanout = << >>
    /\ out = <<<<"Configuration string and number of inputs do not match. No node added.">>>>

\* C17: in every state, setIpValue(id, v) on a primary input leaves 1 on it
\* if v >= 1 and 0 otherwise and changes nothing else; on an id that is
\* absent, a primary output or a block it changes nothing.
SetInputFrame ==
    \A ip_id \in ArgIds, value \in ArgValues :
        LET vg == setIpValue(Enter(Self), ip_id, value)
        IN IF ip_id \in PrimeIns(dGrph)
           THEN /\ vg.dGrph = [dGrph EXCEPT ![IndexOf(dGrph, ip_id)].node.val =
                                                 IF value >= 1 THEN "1" ELSE "0"]
                /\ vg.prime_ip = prime_ip
                /\ vg.prime_op = prime_op
                /\ vg.op_fanout = op_fanout
           ELSE Untouched(vg)

\* The primary input a holds a value that was set, and a setIpValue call on
\* another record has just been turned down beside the blocks u1 and r1.
InputSetThenRejected ==
    /\ Has(dGrph, "u1") /\ Has(dGrph, "r1")
    /\ Get(dGrph, "a").val = "1"
    /\ out = <<<<"Cannot set value of any other node. Value not set.">>>>

\* simulate is given one of its two arguments only, or two of different
\* lengths.
BadSimulateArgs(inputs, bit_str) ==
    \/ inputs = None /\ bit_str # None
    \/ inputs # None /\ bit_str = None
    \/ inputs # None /\ bit_str # None /\ Len(inputs[1]) # Len(bit_str[1])

\* C18: in every state, simulate called with one argument only or with
\* arguments of different lengths returns without writing an input,
\* resetting a value or evaluating a block.
SimulateArgsChecked ==
    \A inputs \in ArgInputs, bit_str \in ArgBits :
        BadSimulateArgs(inputs, bit_str)
        => LET vg == simulate(Enter(Self), inputs, bit_str)
           IN Untouched(vg) /\ vg.evals = << >> /\ vg.exc = ""

\* simulate has just turned down arguments of different lengths, on a graph
\* whose cfg block holds the value of an earlier simulate call.
SimulateRefused ==
    /\ Has(dGrph, "u1")
    /\ Get(dGrph, "u1").val # "None"
    /\ out = <<<<"inputs and bit_str not of same length. Exiting simulation...">>>>

\* C20: in every state, an addAriBlck call that is not given exactly 5
\* inputs, 3 outputs and 5 config digits leaves the graph unchanged.
AriShapeChecked ==
    \A ni \in (MaxAriInputs - 2)..MaxAriInputs,
       no \in (MaxAriOutputs - 2)..MaxAriOutputs,
       l \in (MaxAriDigits - 2)..MaxAriDigits :
        ~(ni = 5 /\ no = 3 /\ l = 5)
        => Untouched(addAriBlck(Enter(Self), "r1", ArgNets(ni), ArgOuts(no), ArgDigits(l)))

\* An addAriBlck call was turned down for its number of outputs, on a graph
\* without r1.
AriShapeRejected ==
    /\ dGrph # << >>
    /\ ~Has(dGrph, "r1")
    /\ out = <<<<"Invalid number of outputs. No node added.">>>>

-----------------------------------------------------------------------------
(* Properties of SpecTri *)

\* C15: a tribuf that was evaluated holds its data input if its ctrl input
\* was 1, and 'Z' if its ctrl input was 0 or 'Z', whatever the data.
TribufCorrect ==
    \A i \in 1..Len(evals) :
        LET n == Get(dGrph, evals[i].blck)
            data == evals[i].ip_str[1]
            ctrl == evals[i].ip_str[2]
        IN n.kind = "tri"
           => /\ ctrl = "1" => n.val = data
              /\ ctrl \in {"0", "Z"} => n.val = "Z"

\* One simulate call evaluated tribufs on a ctrl of 0, of 'Z' and of 1, the
\* last with 'Z' as its data.
TribufEveryCtrl ==
    /\ \E i \in 1..Len(evals) :
          Get(dGrph, evals[i].blck).kind = "tri" /\ evals[i].ip_str = <<"1", "0">>
    /\ \E i \in 1..Len(evals) :
          Get(dGrph, evals[i].blck).kind = "tri" /\ evals[i].ip_str = <<"1", "Z">>
    /\ \E i \in 1..Len(evals) :
          Get(dGrph, evals[i].blck).kind = "tri" /\ evals[i].ip_str = <<"Z", "1">>
    /\ Get(dGrph, "z").val = "Z"

\* C16: a gate that was evaluated has two inputs or more; on inputs that are
\* all 0 or 1 an AND gate holds 1 if every input was 1 and 0 otherwise, an OR
\* gate 1 if some input was 1 and 0 otherwise; on an input of 'Z' it holds
\* 'Z'.
GateCorrect ==
    \A i \in 1..Len(evals) :
        LET n == Get(dGrph, evals[i].blck)
            ip_str == evals[i].ip_str
        IN n.kind = "gate"
           => /\ Len(ip_str) >= 2
              /\ InSeq("Z", ip_str) => n.val = "Z"
              /\ (IsBits(ip_str) /\ n.gt = "A")
                 => n.val = IF \A k \in 1..Len(ip_str) : ip_str[k] = "1" THEN "1" ELSE "0"
              /\ (IsBits(ip_str) /\ n.gt = "O")
                 => n.val = IF \E k \in 1..Len(ip_str) : ip_str[k] = "1" THEN "1" ELSE "0"

\* One simulate call evaluated an AND gate on 1 and 0, an AND gate on 1 and
\* 1, and the OR gate on inputs of which one only was 1.
GateMixedInputs ==
    /\ \E i \in 1..Len(evals) :
          LET n == Get(dGrph, evals[i].blck)
          IN n.kind = "gate" /\ n.gt = "A" /\ evals[i].ip_str = <<"1", "0">> /\ n.val = "0"
    /\ \E i \in 1..Len(evals) :
          LET n == Get(dGrph, evals[i].blck)
          IN n.kind = "gate" /\ n.gt = "A" /\ evals[i].ip_str = <<"1", "1">> /\ n.val = "1"
    /\ \E i \in 1..Len(evals) :
          LET n == Get(dGrph, evals[i].blck)
          IN /\ n.kind = "gate" /\ n.gt = "O" /\ n.val = "1"
             /\ Cardinality({k \in 1..Len(evals[i].ip_str) : evals[i].ip_str[k] = "1"}) = 1

\* C19: in every state, a triplicateBlck call on a gate, a prime_io record
\* (with or without a value) or an id that is not in the graph returns
\* without an exception and leaves the graph and the fan-out registry
\* unchanged.
TriplicateRejects ==
    \A blck_id \in TriTriplicateMenu \ Triplicatable(dGrph) :
        LET vg == triplicateBlck(Enter(Self), blck_id)
        IN Untouched(vg) /\ vg.exc = ""

-----------------------------------------------------------------------------
(* Properties of SpecAri *)

\* INIT[k], k counted from 0, as a truth value
InitBit(INIT, k) == INIT[k + 1] = "1"

\* The character of a truth value
BitChar(b) == IF b THEN "1" ELSE "0"

\* (Y, S, FCO) by the formulas of the arithmetic cell, on truth values.
AriFormulas(INIT, ip_str) ==
    LET A == IntOf(ip_str[1])
        B == IntOf(ip_str[2])
        C == IntOf(ip_str[3])
        D == IntOf(ip_str[4])
        FCI == ip_str[5] = "1"
        F0 == InitBit(INIT, 4 * B + 2 * C + D)
        F1 == InitBit(INIT, 8 + 4 * B + 2 * C + D)
        P == InitBit(INIT, 19) \/ (~InitBit(INIT, 19) /\ InitBit(INIT, 18))
        G == \/ (F0 /\ InitBit(INIT, 16) /\ InitBit(INIT, 17))
             \/ (InitBit(INIT, 17) /\ ~InitBit(INIT, 16))
             \/ (F1 /\ InitBit(INIT, 16) /\ InitBit(INIT, 17))
        Y == InitBit(INIT, 8 * A + 4 * B + 2 * C + D)
        S == Y # FCI
        FCO == (~P /\ G) \/ (P /\ FCI)
    IN <<BitChar(Y), BitChar(S), BitChar(FCO)>>

\* C4: an ari block evaluated on inputs that are all 0 or 1 holds the Y, S
\* and FCO of the cell's formulas over its reversed config, each 0 or 1; with
\* config A5D21 and inputs 1,0,1,0,0 they are 1, 1 and 0.
AriCorrect ==
    \A i \in 1..Len(evals) :
        LET n == Get(dGrph, evals[i].blck)
            ip_str == evals[i].ip_str
        IN (n.kind = "ari" /\ IsBits(ip_str))
           => /\ n.vals = AriFormulas(n.cfg, ip_str)
              /\ IsBits(n.vals)
              /\ (/\ n.cfg = StoredConfig(<<"A", "5", "D", "2", "1">>)
                  /\ ip_str = <<"1", "0", "1", "0", "0">>)
                 => n.vals = <<"1", "1", "0">>

\* The ari block of config A5D21 was evaluated on 1,0,1,0,0 and the primary
\* outputs of its nets read 1, 1, 0.
AriEvaluated ==
    /\ Has(dGrph, "ari1")
    /\ Get(dGrph, "ari1").cfg = StoredConfig(<<"A", "5", "D", "2", "1">>)
    /\ \E i \in 1..Len(evals) :
          evals[i].blck = "ari1" /\ evals[i].ip_str = <<"1", "0", "1", "0", "0">>
    /\ <<Get(dGrph, "Y").val, Get(dGrph, "S").val, Get(dGrph, "FCO").val>>
         = <<"1", "1", "0">>

-----------------------------------------------------------------------------
(* Properties of SpecZ *)

\* An input other than a tribuf's ctrl was 'Z' when the record was evaluated.
DataIsZ(n, ip_str) ==
    IF n.kind = "tri" THEN ip_str[1] = "Z" ELSE InSeq("Z", ip_str)

\* The primary outputs a block writes: those named like its output nets and,
\* for a cfg block, the sinks registered under its output net.
DrivenOutputs(vg, n) ==
    (OutNets(n) \cup (IF n.kind = "cfg" /\ n.op \in DOMAIN vg.op_fanout
                      THEN Range(vg.op_fanout[n.op]) ELSE {}))
      \cap PrimeOuts(vg.dGrph)

\* C5: a block of any kind evaluated with 'Z' on an input other than a
\* tribuf's ctrl holds 'Z' on every output, and so does every primary output
\* it drives.
ZAbsorbed ==
    \A i \in 1..Len(evals) :
        LET n == Get(dGrph, evals[i].blck)
        IN DataIsZ(n, evals[i].ip_str)
           => /\ \A j \in 1..Len(OutValues(n)) : OutValues(n)[j] = "Z"
              /\ \A o \in DrivenOutputs(Self, n) : Get(dGrph, o).val = "Z"

\* One simulate call evaluated a block of each kind on a 'Z' data input, and
\* 'Z' is on the primary outputs behind the voter, the ari block and the
\* tribuf.
ZEveryKind ==
    /\ \A kind \in {"cfg", "ari", "tri", "gate"} :
          \E i \in 1..Len(evals) :
              LET n == Get(dGrph, evals[i].blck)
              IN n.kind = kind /\ DataIsZ(n, evals[i].ip_str)
    /\ Get(dGrph, "y1").val = "Z"
    /\ Get(dGrph, "y2").val = "Z"
    /\ Get(dGrph, "y3").val = "Z"
-----------------------------------------------------------------------------
(* Properties of SpecSim *)

InputValue(d, net) ==
    IF net \in PrimeIns(d) THEN Get(d, net).val ELSE NetValue(d, net)

\* Every input of every block is a primary input that holds 0 or 1, or the
\* output of exactly one block.
Complete(d) ==
    \A b \in Blocks(d) : \A net \in InNets(Get(d, b)) :
        IF net \in PrimeIns(d) THEN Get(d, net).val \in {"0", "1"}
        ELSE Cardinality({x \in Blocks(d) : net \in OutNets(Get(d, x))}) = 1

\* The outputs of a block of n's kind on the input values ins: the lookup
\* in the reversed config, the formulas of the arithmetic cell, the tribuf,
\* the AND and the OR, and 'Z' on an input of 'Z'.
KindFunction(n, ins) ==
    CASE n.kind = "cfg" ->
           IF InSeq("Z", ins) THEN <<"Z">> ELSE <<n.cfg[BinValue(ins) + 1]>>
      [] n.kind = "ari" ->
           IF InSeq("Z", ins) THEN <<"Z", "Z", "Z">> ELSE AriFormulas(n.cfg, ins)
      [] n.kind = "tri" -> <<IF ins[2] = "1" THEN ins[1] ELSE "Z">>
      [] n.kind = "gate" ->
           IF InSeq("Z", ins) THEN <<"Z">>
           ELSE IF n.gt = "A" THEN <<BitChar(\A k \in 1..Len(ins) : ins[k] = "1")>>
           ELSE <<BitChar(\E k \in 1..Len(ins) : ins[k] = "1")>>

\* C22: in every state with a well-formed acyclic graph all of whose block
\* inputs are entered primary inputs or outputs of one block, simulate()
\* returns with every block output defined and equal to the function of
\* the block's kind on the values its input nets hold after the call,
\* whatever the order in which the blocks were added.
EvaluatesToFixpoint ==
    (WellFormed(Self) /\ Complete(dGrph))
    => LET vg == simulate(Enter(Self), None, None)
       IN /\ vg.exc = ""
          /\ \A b \in Blocks(dGrph) :
                 LET n == Get(vg.dGrph, b)
                     ins == [k \in 1..Len(n.ip) |-> InputValue(vg.dGrph, n.ip[k])]
                 IN Defined(n) /\ OutValues(n) = KindFunction(n, ins)

\* The value two or more of three values in {0, 1} have.
Majority(v) == IF Cardinality({i \in 1..3 : v[i] = "1"}) >= 2 THEN "1" ELSE "0"

\* The voter that vg holds for output j of the replicas of b, among the
\* records gates: one AND gate for each pair of the replicas' nets of that
\* output, and one OR gate that reads the outputs of the three.
VoterOf(vg, gates, b, j) ==
    LET r == [i \in 1..3 |-> OutSeq(Get(vg.dGrph, NewIds(b)[i]))[j]]
        ands(pair) == {g \in gates : Get(vg.dGrph, g).gt = "A" /\ Get(vg.dGrph, g).ip = pair}
        all == ands(<<r[1], r[2]>>) \cup ands(<<r[1], r[3]>>) \cup ands(<<r[2], r[3]>>)
        ors == {g \in gates : /\ Get(vg.dGrph, g).gt = "O"
                              /\ Len(Get(vg.dGrph, g).ip) = 3
                              /\ Range(Get(vg.dGrph, g).ip) = {Get(vg.dGrph, x).op : x \in all}}
    IN /\ Cardinality({r[1], r[2], r[3]}) = 3
       /\ Cardinality(ands(<<r[1], r[2]>>)) = 1
       /\ Cardinality(ands(<<r[1], r[3]>>)) = 1
       /\ Cardinality(ands(<<r[2], r[3]>>)) = 1
       /\ Cardinality(ors) = 1

\* C23: in every state, a triplicateBlck call on a cfg, ari or tribuf block b
\* adds three replicas and, for each output of b, three 2-input AND gates
\* over the pairs of the replicas' nets and one 3-input OR gate over the
\* three AND outputs, and no other record (7 records for a cfg block or a
\* tribuf, 15 for an ari block); and the OR gate of a triplicated block that
\* simulate evaluated holds the majority of the values of the block's three
\* replicas when these are 0 or 1.
VoterIsMajority ==
    /\ \A b \in Triplicatable(dGrph) :
          LET vg == triplicateBlck(Enter(Self), b)
              outs == OutSeq(Get(dGrph, b))
              new == Ids(vg.dGrph) \ Ids(dGrph)
              gates == {g \in new : Get(vg.dGrph, g).kind = "gate"}
          IN /\ Range(NewIds(b)) \subseteq new
             /\ Cardinality(gates) = 4 * Len(outs)
             /\ Cardinality(new) = 3 + 4 * Len(outs)
             /\ Cardinality(new) = IF Get(dGrph, b).kind = "ari" THEN 15 ELSE 7
             /\ \A g \in gates :
                    Len(Get(vg.dGrph, g).ip) = IF Get(vg.dGrph, g).gt = "A" THEN 2 ELSE 3
             /\ \A j \in 1..Len(outs) : VoterOf(vg, gates, b, j)
    /\ \A b \in SimTriplicateMenu :
          LET g == NewIds(b)[1] \o "_or0"
              v == [i \in 1..3 |-> FirstValue(Get(dGrph, NewIds(b)[i]))]
          IN (/\ Has(dGrph, g)
              /\ \E i \in 1..Len(evals) : evals[i].blck = g
              /\ IsBits(v))
             => Get(dGrph, g).val = Majority(v)

\* The name under which simulate lists the blocks of a kind.
ListName(kind) ==
    CASE kind = "cfg" -> "cfg_blck" [] kind = "ari" -> "ari_blck"
      [] kind = "tri" -> "tribuf" [] kind = "gate" -> "gate"

\* The ids of a list of block records.
ListedIds(blcks) == {blcks[k].id : k \in 1..Len(blcks)}

\* The ids of the replicas of the blocks of SimTriplicateMenu.
SimReplicas == UNION {Range(NewIds(b)) : b \in SimTriplicateMenu}

\* C24: in every state, a triplicateBlck call on a cfg, ari or tribuf block b
\* leaves three replicas of b's kind with b's inputs in b's order and b's
\* stored config, each in the list of its kind, and leaves every other
\* record as it was, its inputs included; and a replica that simulate
\* evaluated holds the function of its kind on the inputs it read.
ReplicasAlike ==
    /\ \A b \in Triplicatable(dGrph) :
          LET d == triplicateBlck(Enter(Self), b).dGrph
              n == Get(dGrph, b)
              listed == ListedIds(ListOf(d, ListName(n.kind)))
              replicas == SelectSeq(d, LAMBDA e : e.id \in Range(NewIds(b)))
          IN /\ Len(replicas) = 3
             /\ \A i \in 1..3 :
                    /\ replicas[i].node.kind = n.kind
                    /\ replicas[i].node.ip = n.ip
                    /\ n.kind \in {"cfg", "ari"} => replicas[i].node.cfg = n.cfg
                    /\ replicas[i].id \in listed
             /\ SelectSeq(d, LAMBDA e : e.id \in Ids(dGrph))
                  = SelectSeq(dGrph, LAMBDA e : e.id # b)
    /\ \A i \in 1..Len(evals) :
          evals[i].blck \in SimReplicas
          => OutValues(Get(dGrph, evals[i].blck))
               = KindFunction(Get(dGrph, evals[i].blck), evals[i].ip_str)

\* The replicas of the ari block and of a tribuf are in the graph and
\* simulate evaluated them on inputs of 0 and 1.
ReplicasEvaluated ==
    /\ \E i \in 1..Len(evals) :
          evals[i].blck = "r1_tripd782" /\ IsBits(evals[i].ip_str)
    /\ \E i \in 1..Len(evals) :
          evals[i].blck = "t2_tripd782" /\ IsBits(evals[i].ip_str)

\* The ids of the records of d of one kind, in the order of d.
IdsOfKind(d, kind) ==
    LET es == SelectSeq(d, LAMBDA e : e.node.kind = kind)
    IN [i \in 1..Len(es) |-> es[i].id]

\* The blocks in the order of the claim: the cfg blocks, the ari blocks, the
\* tribufs, the gates, each kind in the order of the node store.
KindOrder(d) ==
    IdsOfKind(d, "cfg") \o IdsOfKind(d, "ari") \o IdsOfKind(d, "tri") \o IdsOfKind(d, "gate")

\* The place of x in a sequence without repetition.
Pos(seq, x) == CHOOSE i \in 1..Len(seq) : seq[i] = x

\* The __processBlcks calls that simulate made itself.
TopCalls == SelectSeq(calls, LAMBDA c : c.depth = 1)

\* C25: after a simulate call that returned, the __processBlcks calls made
\* by simulate itself are on blocks whose output was unset at the call, in
\* the order cfg, ari, tribuf, gate and within a kind in the order of the
\* node store; a block that simulate did not call holds a value that a
\* nested call gave it before the turn of any block that comes after it.
TopLevelOrder ==
    (exc = "" /\ calls # << >> /\ BlocksOf(dGrph, {"cfgNone"}) = {})
    => LET L == KindOrder(dGrph)
           top == TopCalls
           called == {top[i].blck : i \in 1..Len(top)}
       IN /\ \A i \in 1..Len(top) : top[i].blck \in Range(L) /\ ~top[i].done
          /\ \A i, j \in 1..Len(top) :
                 i < j => Pos(L, top[i].blck) < Pos(L, top[j].blck)
          /\ \A b \in Range(L) \ called :
                 /\ Defined(Get(dGrph, b))
                 /\ \E i \in 1..Len(calls) :
                        /\ calls[i].blck = b /\ calls[i].depth > 1
                        /\ \A j \in 1..Len(calls) :
                               (calls[j].depth = 1 /\ Pos(L, calls[j].blck) > Pos(L, b))
                               => i < j

\* simulate called a cfg block, a tribuf and a gate itself, and left out an
\* ari block that a nested call had evaluated.
TopLevelSkipsEvaluated ==
    /\ exc = ""
    /\ \A kind \in {"cfg", "tri", "gate"} :
          \E i \in 1..Len(calls) :
              calls[i].depth = 1 /\ Get(dGrph, calls[i].blck).kind = kind
    /\ \E b \in Range(IdsOfKind(dGrph, "ari")) :
          /\ \E i \in 1..Len(calls) : calls[i].blck = b
          /\ \A i \in 1..Len(calls) : calls[i].blck = b => calls[i].depth > 1

\* C26: after a simulate call that returned, every nested __processBlcks
\* call was on a block whose output was unset when the call began, and no
\* block went through the computation of its kind twice.
NoBlockComputedTwice ==
    exc = ""
    => /\ \A i \in 1..Len(calls) : calls[i].depth > 1 => ~calls[i].done
       /\ \A i, j \in 1..Len(evals) : i < j => evals[i].blck # evals[j].blck

\* The blocks that went through the computation of their kind.
EvaluatedBlocks == {evals[i].blck : i \in 1..Len(evals)}

\* The value block b holds on its output net.
OutputOn(d, b, net) ==
    LET n == Get(d, b)
    IN IF n.kind = "ari" THEN n.vals[CHOOSE j \in 1..3 : n.ops[j] = net] ELSE n.val

\* The evaluated blocks with a registered sink p on one of their output nets.
FanoutWriters(p) ==
    {b \in EvaluatedBlocks :
        \E net \in OutNets(Get(dGrph, b)) :
            net \in DOMAIN op_fanout /\ InSeq(p, op_fanout[net])}

\* C27: in a simulate call that returned, every computation that wrote an
\* output net with the name of a declared primary output wrote that primary
\* output with the same value in the same step; afterwards a primary output
\* holds the value of the evaluated block that drives the net of its name,
\* and is unset when no evaluated block drives it or has it as a sink.
PrimeOutputsFollow ==
    (exc = "" /\ calls # << >> /\ BlocksOf(dGrph, {"cfgNone"}) = {})
    => /\ \A i \in 1..Len(evals) : \A k \in 1..Len(evals[i].ops) :
              InSeq(evals[i].ops[k][1], prime_op) => InSeq(evals[i].ops[k], evals[i].pos)
       /\ \A p \in Range(prime_op) :
              LET by == {b \in EvaluatedBlocks : p \in OutNets(Get(dGrph, b))}
              IN /\ \A b \in by : Get(dGrph, p).val = OutputOn(dGrph, b, p)
                 /\ (by = {} /\ FanoutWriters(p) = {}) => Get(dGrph, p).val = "None"

\* After a simulate call the primary outputs y, s and z hold the values of
\* a voter gate, an ari block and a tribuf, and q, which nothing drives, is
\* unset.
PrimeOutputsWritten ==
    /\ exc = "" /\ calls # << >>
    /\ \E g \in BlocksOf(dGrph, {"gate"}) \cap EvaluatedBlocks :
          Get(dGrph, g).op = "y" /\ Get(dGrph, "y").val \in {"0", "1"}
    /\ "r1" \in EvaluatedBlocks /\ Get(dGrph, "s").val \in {"0", "1"}
    /\ "t2" \in EvaluatedBlocks /\ Get(dGrph, "z").val \in {"0", "1", "Z"}
    /\ Get(dGrph, "q").val = "None"

\* The blocks of an acyclic graph by the number of blocks on the longest
\* driver chain that ends in them: m holds the blocks of a chain shorter
\* than n.  A block on a cycle, or fed from one, gets no number.
RECURSIVE Chains(_, _, _)
Chains(d, m, n) ==
    LET ready == {b \in Blocks(d) \ DOMAIN m :
                     \A x \in Blocks(d) : Feeds(d, x, b) => x \in DOMAIN m}
    IN IF ready = {} THEN m ELSE Chains(d, m @@ [b \in ready |-> n], n + 1)

\* The length of the longest driver chain, given the chain of each block.
LongestChain(ch) ==
    IF DOMAIN ch = {} THEN 0
    ELSE ch[CHOOSE b \in DOMAIN ch : \A c \in DOMAIN ch : ch[c] <= ch[b]]

\* C28: on an acyclic graph simulate comes to an end without exhausting the
\* call stack, and each __processBlcks call sits at a depth which, with the
\* driver chain below its block, is no longer than the longest driver chain
\* of the circuit, which is no longer than the number of blocks.
DepthBounded ==
    LET ch == Chains(dGrph, << >>, 1)
    IN (DOMAIN ch = Blocks(dGrph))
       => /\ exc # "RecursionError"
          /\ LongestChain(ch) <= Cardinality(Blocks(dGrph))
          /\ \A i \in 1..Len(calls) :
                 calls[i].depth + ch[calls[i].blck] - 1 <= LongestChain(ch)

\* simulate returned after a __processBlcks call four calls deep, on a
\* block that is the first of its chain.
DeepCall ==
    /\ exc = "" /\ Acyclic(dGrph)
    /\ \E i \in 1..Len(calls) :
          /\ calls[i].depth >= 4 /\ ~calls[i].done
          /\ \A x \in Blocks(dGrph) : ~Feeds(dGrph, x, calls[i].blck)
          /\ calls[i].blck \in EvaluatedBlocks

\* What simulate() is to leave alone in a record: all of a primary input,
\* and all but the value of a primary output and all but the output values
\* of a block.
Wiring(n) ==
    CASE n.kind = "prime" -> IF n.io = "i" THEN <<"prime", n.io, n.val, n.str>>
                             ELSE <<"prime", n.io>>
      [] n.kind = "cfg" -> <<"cfg", n.ip, n.op, n.cfg>>
      [] n.kind = "ari" -> <<"ari", n.ip, n.ops, n.cfg>>
      [] n.kind = "tri" -> <<"tri", n.ip, n.ctl, n.op>>
      [] n.kind = "gate" -> <<"gate", n.ip, n.gt, n.op>>
      [] n.kind = "cfgNone" -> <<"cfgNone", n.ip, n.cfg>>

\* C29: in every state, a simulate() call without arguments leaves the ids
\* of the node store in place, every record's inputs, output nets and
\* config, the value of every primary input, the list of primary outputs
\* and the fan-out registry as they were; only output values change.
SimulateFrame ==
    LET vg == simulate(Enter(Self), None, None)
    IN /\ Len(vg.dGrph) = Len(dGrph)
       /\ \A i \in 1..Len(dGrph) :
              /\ vg.dGrph[i].id = dGrph[i].id
              /\ Wiring(vg.dGrph[i].node) = Wiring(dGrph[i].node)
       /\ vg.prime_op = prime_op
       /\ vg.op_fanout = op_fanout

-----------------------------------------------------------------------------
(* Properties of SpecHex *)

\* The value of a hex string.
RECURSIVE HexNumber(_)
HexNumber(h) ==
    IF h = << >> THEN 0
    ELSE 16 * HexNumber(SubSeq(h, 1, Len(h) - 1)) + HexValue(h[Len(h)])

\* C30: the conversion of the hex string of a builder call has four bits
\* for each digit, the bits of digit k being its value written with the
\* most significant bit first and zeros on the left; the value of the whole
\* is the value of the hex string; and the config that the node holds is
\* the conversion read backwards.
HexConversion ==
    \A i \in 1..Len(calls) :
        "config" \in DOMAIN calls[i]
        => LET h == calls[i].config
               b == convertToBinaryStr(h)
           IN /\ Len(b) = 4 * Len(h)
              /\ Range(b) \subseteq {"0", "1"}
              /\ \A k \in 1..Len(h) :
                     BinValue(SubSeq(b, 4 * k - 3, 4 * k)) = HexValue(h[k])
              /\ BinValue(b) = HexNumber(h)
              /\ Has(dGrph, calls[i].blck)
                     => /\ Get(dGrph, calls[i].blck).cfg = Reverse(b)
                        /\ Len(Get(dGrph, calls[i].blck).cfg) = 4 * Len(h)

\* A cfg block holds the config of the string 'aF', and an ari block could
\* hold that of a string of five digits.
HexStored ==
    /\ Len(calls) = 1 /\ "config" \in DOMAIN calls[1]
    /\ calls[1].config = <<"a", "F">>
    /\ Has(dGrph, "h")
    /\ Get(dGrph, "h").cfg = <<"1", "1", "1", "1", "0", "1", "0", "1">>

====
